---- MODULE Spec2Model ----
(***************************************************************************)
(* Model of the model-selector fallback execution engine                   *)
(* (src/src/wrapper/executor.ts) and of the error classifier it consults   *)
(* (src/src/wrapper/errors.ts).                                            *)
(*                                                                         *)
(* One single-shot execution, executeWithFallbacks(candidates, fn,         *)
(* options), is a cooperative process.  Its suspension points are the      *)
(* await of the operation wrapped in withTimeout and the await of the      *)
(* backoff sleep, so an action is the code that runs between two of them.  *)
(* AttemptInfo.durationMs is wall-clock time and is left out.              *)
(***************************************************************************)
EXTENDS Integers, Sequences, FiniteSets, TLC

\* ------------------------------------------------------------------ bounds
\* Longest candidate list handed to executeWithFallbacks.
MaxCandidates == 3
\* Largest explicit options.fallbackCount.
MaxFallbackCount == 2
\* Largest explicit options.maxRetries.
MaxRetries == 1
\* The explicit options.retryDelay that is tried next to the default.
RetryDelayInput == 7

\* ------------------------------------------------- executor.ts constants
DEFAULT_FALLBACK_COUNT == 3
DEFAULT_MAX_RETRIES == 2
DEFAULT_RETRY_DELAY == 1000
DEFAULT_TIMEOUT == 60000

\* ------------------------------------------------------- errors.ts tables
\* An error text is modelled as [words, nums]: the lower-cased words of the
\* text in order, and the numbers that occur in it.  A word pattern
\* (/rate.?limit/i) is the sequence of words it spans; a number pattern
\* (/429/) matches when its digits occur inside one of the numbers.
RATE_LIMIT_PATTERNS ==
  [words |-> {<<"rate", "limit">>, <<"too", "many", "requests">>,
              <<"quota", "exceeded">>, <<"capacity">>, <<"overloaded">>},
   nums  |-> {429}]

AUTH_PATTERNS ==
  [words |-> {<<"unauthorized">>, <<"invalid", "api", "key">>,
              <<"authentication">>, <<"api", "key", "invalid">>,
              <<"forbidden">>},
   nums  |-> {401, 403}]

TRANSIENT_PATTERNS ==
  [words |-> {<<"timeout">>, <<"timed", "out">>, <<"network">>,
              <<"connection">>, <<"econnrefused">>, <<"econnreset">>,
              <<"enotfound">>, <<"socket">>, <<"service", "unavailable">>,
              <<"internal", "server", "error">>, <<"temporarily">>},
   nums  |-> {500, 502, 503, 504}]

INVALID_REQUEST_PATTERNS ==
  [words |-> {<<"invalid", "request">>, <<"bad", "request">>,
              <<"validation">>, <<"malformed">>, <<"context", "length">>,
              <<"token", "limit">>, <<"max", "tokens">>,
              <<"content", "filter">>, <<"safety">>},
   nums  |-> {400}]

\* p occurs as a contiguous run of words in ws.
WordsMatch(p, ws) ==
  \E k \in 0..(Len(ws) - Len(p)) :
     \A j \in 1..Len(p) : ws[k + j] = p[j]

\* The three digits of p occur in the decimal rendering of n.
DigitsMatch(p, n) ==
  \E k \in 0..6 : (n \div (10 ^ k)) % 1000 = p /\ n \div (10 ^ k) >= 100

matchesPatterns(text, patterns) ==
  \/ \E p \in patterns.words : WordsMatch(p, text.words)
  \/ \E p \in patterns.nums : \E n \in text.nums : DigitsMatch(p, n)

\* An error object is [name, message, nums, id]: message is the word
\* sequence of error.message, nums the numbers written in it, id tells error
\* objects apart (the invocation that threw).  It may have the properties
\* status, statusCode, code and cause; a property value is [type, words,
\* nums], a cause is [type, message] with message a property value.
numberProp(n) == [type |-> "number", words |-> <<"#">>, nums |-> {n}]
stringProp(ws, ns) == [type |-> "string", words |-> ws, nums |-> ns]

\* The parts getErrorText pushes for the property prop when it has the
\* type wanted.
propParts(error, prop, wanted) ==
  IF prop \in DOMAIN error /\ error[prop].type = wanted
    THEN <<[words |-> error[prop].words, nums |-> error[prop].nums]>>
    ELSE <<>>

causeParts(error) ==
  IF "cause" \in DOMAIN error /\ error.cause.type = "object"
       /\ error.cause.message.type = "string"
    THEN <<[words |-> error.cause.message.words,
            nums |-> error.cause.message.nums]>>
    ELSE <<>>

RECURSIVE joinWords(_)
joinWords(parts) ==
  IF Len(parts) = 0 THEN <<>> ELSE parts[1].words \o joinWords(Tail(parts))

\* parts.join(' '): the words of the parts in order (a number is a word
\* no pattern has) and the numbers of all the parts.
getErrorText(error) ==
  LET parts == <<[words |-> error.message, nums |-> error.nums]>>
                 \o propParts(error, "status", "number")
                 \o propParts(error, "statusCode", "number")
                 \o propParts(error, "code", "string")
                 \o causeParts(error)
  IN [words |-> joinWords(parts),
      nums |-> UNION {parts[k].nums : k \in 1..Len(parts)}]

classifyError_AuthRetries(error) ==
  LET errorText == getErrorText(error) IN
  IF matchesPatterns(errorText, RATE_LIMIT_PATTERNS)
    THEN [category |-> "RATE_LIMIT", shouldRetry |-> FALSE, shouldFallback |-> TRUE]
  ELSE IF matchesPatterns(errorText, AUTH_PATTERNS)
    THEN [category |-> "AUTH", shouldRetry |-> TRUE, shouldFallback |-> TRUE]
  ELSE IF matchesPatterns(errorText, INVALID_REQUEST_PATTERNS)
    THEN [category |-> "INVALID_REQUEST", shouldRetry |-> FALSE, shouldFallback |-> FALSE]
  ELSE IF matchesPatterns(errorText, TRANSIENT_PATTERNS)
    THEN [category |-> "TRANSIENT", shouldRetry |-> TRUE, shouldFallback |-> TRUE]
  ELSE [category |-> "UNKNOWN", shouldRetry |-> TRUE, shouldFallback |-> TRUE]

classifyError_TransientFirst(error) ==
  LET errorText == getErrorText(error) IN
  IF matchesPatterns(errorText, RATE_LIMIT_PATTERNS)
    THEN [category |-> "RATE_LIMIT", shouldRetry |-> FALSE, shouldFallback |-> TRUE]
  ELSE IF matchesPatterns(errorText, AUTH_PATTERNS)
    THEN [category |-> "AUTH", shouldRetry |-> FALSE, shouldFallback |-> TRUE]
  ELSE IF matchesPatterns(errorText, TRANSIENT_PATTERNS)
    THEN [category |-> "TRANSIENT", shouldRetry |-> TRUE, shouldFallback |-> TRUE]
  ELSE IF matchesPatterns(errorText, INVALID_REQUEST_PATTERNS)
    THEN [category |-> "INVALID_REQUEST", shouldRetry |-> FALSE, shouldFallback |-> FALSE]
  ELSE [category |-> "UNKNOWN", shouldRetry |-> TRUE, shouldFallback |-> TRUE]

classifyError(error) ==
  LET errorText == getErrorText(error) IN
  IF matchesPatterns(errorText, RATE_LIMIT_PATTERNS)
    THEN [category |-> "RATE_LIMIT", shouldRetry |-> FALSE, shouldFallback |-> TRUE]
  ELSE IF matchesPatterns(errorText, AUTH_PATTERNS)
    THEN [category |-> "AUTH", shouldRetry |-> FALSE, shouldFallback |-> TRUE]
  ELSE IF matchesPatterns(errorText, INVALID_REQUEST_PATTERNS)
    THEN [category |-> "INVALID_REQUEST", shouldRetry |-> FALSE, shouldFallback |-> FALSE]
  ELSE IF matchesPatterns(errorText, TRANSIENT_PATTERNS)
    THEN [category |-> "TRANSIENT", shouldRetry |-> TRUE, shouldFallback |-> TRUE]
  ELSE [category |-> "UNKNOWN", shouldRetry |-> TRUE, shouldFallback |-> TRUE]

\* new TimeoutError(timeoutMs): `Request timed out after ${timeoutMs}ms`.
TimeoutError(timeoutMs, id) ==
  [name |-> "TimeoutError",
   message |-> <<"request", "timed", "out", "after", "ms">>,
   nums |-> {timeoutMs}, id |-> id]

\* new AllModelsFailedError(attempts).
AllModelsFailedError(failed) ==
  [name |-> "AllModelsFailedError",
   message |-> <<"all", "models", "failed">>,
   nums |-> {}, id |-> 0, attempts |-> failed]

\* new Error('No models available to try').
NoModelsError ==
  [name |-> "Error",
   message |-> <<"no", "models", "available", "to", "try">>,
   nums |-> {}, id |-> 0]

\* The messages the operation fn may reject with, one per category.
ErrorMessages ==
  { <<"rate", "limit", "exceeded">>,          \* RATE_LIMIT
    <<"unauthorized">>,                        \* AUTH
    <<"invalid", "request", "bad", "input">>,  \* INVALID_REQUEST
    <<"network", "error">>,                    \* TRANSIENT
    <<"always", "fails">> }                    \* UNKNOWN

FnError(message, id) ==
  [name |-> "Error", message |-> message, nums |-> {}, id |-> id]

\* ------------------------------------------------------------------- state
VARIABLES
  candidates,    \* argument: ranked list of ModelCandidate (best first)
  options,       \* argument: BaseWrapperOptions; a field is {} when undefined
  pc,            \* "init" | "awaitOp" | "sleeping" | "resolved" | "rejected"
  i,             \* executeWithFallbacks: loop index into modelsToTry
  attempt,       \* executeWithRetry: loop counter
  attempts,      \* executeWithRetry: local AttemptInfo[]
  lastError,     \* executeWithRetry: local lastError ({} when undefined)
  allAttempts,   \* executeWithFallbacks: AttemptInfo[]
  failedModels,  \* executeWithFallbacks: Array<{modelName, error}>
  outcome,       \* settlement of the returned promise (<<>> while pending)
  hooks,         \* observed: hook events in emission order
  calls,         \* observed: invocations of fn in invocation order
  sleeps,        \* observed: sleep(ms) calls in order
  abandoned,     \* observed: number of invocations of fn that a timeout
                 \* left running and that have not settled yet
  input,         \* argument of the function or entry point under study
  output,        \* what a pure function returned or threw (<<>> before)
  chunks,        \* stream(): chunks yielded to the consumer, in order
  streamError,   \* stream(): error the chunk sequence ended with ({} if none)
  disk,          \* the files at configPath and at its temporary paths
  writers        \* config mutations in flight: position, config read, result

\* State of one engine run: executeWithFallbacks, or stream(), whose
\* generator keeps candidates, options (resolved), i, attempts, failedModels
\* and the deferred result (outcome) and emits hooks and calls as well.
engineVars == <<candidates, options, pc, i, attempt, attempts, lastError,
                allAttempts, failedModels, outcome, hooks, calls, sleeps,
                abandoned>>

\* State of the config writer (config/writer.ts).
configVars == <<disk, writers>>

\* An object without properties: {}.
NoEntries == [n \in {} |-> n]

\* No config mutation has been called.
ConfigIdle ==
  /\ disk = [file |-> {}, temp |-> NoEntries]
  /\ writers = <<>>

vars == <<candidates, options, pc, i, attempt, attempts, lastError,
          allAttempts, failedModels, outcome, hooks, calls, sleeps, abandoned,
          input, output, chunks, streamError, disk, writers>>

Min(a, b) == IF a <= b THEN a ELSE b
Max(a, b) == IF a >= b THEN a ELSE b

\* candidates[k]: { model, config: { provider }, modelName }.
Candidate(k) == [modelName |-> k, provider |-> k]

\* options.x ?? DEFAULT_X
OrDefault(field, default) ==
  IF field = {} THEN default ELSE CHOOSE v \in field : TRUE

fallbackCount == OrDefault(options.fallbackCount, DEFAULT_FALLBACK_COUNT)
maxRetries == OrDefault(options.maxRetries, DEFAULT_MAX_RETRIES)
retryDelay == OrDefault(options.retryDelay, DEFAULT_RETRY_DELAY)
timeout == OrDefault(options.timeout, DEFAULT_TIMEOUT)

\* Array.prototype.slice(0, end)
slice(s, end) ==
  IF end >= 0 THEN SubSeq(s, 1, Min(end, Len(s)))
              ELSE SubSeq(s, 1, Max(Len(s) + end, 0))

modelsToTry_Untruncated == candidates

modelsToTry == slice(candidates, fallbackCount)

\* The explicit options.timeout that is tried next to the default.
TimeoutInput == 40000

\* retryDelay and timeout are both left undefined or both given.
TimingInputs ==
  { [retryDelay |-> {}, timeout |-> {}],
    [retryDelay |-> {RetryDelayInput}, timeout |-> {TimeoutInput}] }

OptionInputs ==
  { [fallbackCount |-> f, maxRetries |-> m,
     retryDelay |-> t.retryDelay, timeout |-> t.timeout] :
      f \in {{}} \cup {{n} : n \in 0..MaxFallbackCount},
      m \in {{}} \cup {{n} : n \in 0..MaxRetries},
      t \in TimingInputs }

Init ==
  /\ candidates \in {[k \in 1..n |-> Candidate(k)] : n \in 0..MaxCandidates}
  /\ options \in OptionInputs
  /\ pc = "init"
  /\ i = 0
  /\ attempt = 0
  /\ attempts = <<>>
  /\ lastError = {}
  /\ allAttempts = <<>>
  /\ failedModels = <<>>
  /\ outcome = <<>>
  /\ hooks = <<>>
  /\ calls = <<>>
  /\ sleeps = <<>>
  /\ abandoned = 0
  /\ input = <<>>
  /\ output = <<>>
  /\ chunks = <<>>
  /\ streamError = {}
  /\ ConfigIdle

\* The invocation of fn the engine is waiting for.
current == Len(calls)

noModels_Unchecked == FALSE

\* if (modelsToTry.length === 0)
noModels == Len(modelsToTry) = 0

breaksLoop_Never(classified) == FALSE

\* if (!classified.shouldRetry) break;
breaksLoop(classified) == ~classified.shouldRetry

isLastAttempt_OffByOne(att) == ~(att <= maxRetries)

\* Neither the sleep guard (attempt < maxRetries) nor, after attempt++, the
\* loop condition (attempt <= maxRetries) lets the loop go round.
isLastAttempt(att) == ~(att < maxRetries)

backoffDelay_Constant(att) == retryDelay

\* const delay = options.retryDelay * Math.pow(2, attempt);
backoffDelay(att) == retryDelay * (2 ^ att)

setLastError_KeepFirst(prev, err) == IF prev = {} THEN {err} ELSE prev

\* lastError = err;
setLastError(prev, err) == {err}

\* new Error('Unknown error')
UnknownError ==
  [name |-> "Error", message |-> <<"unknown", "error">>, nums |-> {}, id |-> 0]

abortsExecution_Never(classified) == FALSE

\* if (!classified.shouldFallback) throw err;
abortsExecution(classified) == ~classified.shouldFallback

ExecutionResult_CountsItself(c, all, idx, call) ==
  [status |-> "resolved",
   result |-> [from |-> c.modelName, call |-> call],
   modelUsed |-> c.modelName,
   attempts |-> all,
   fallbacksUsed |-> idx + 1]

\* The ExecutionResult returned for candidate c at loop index idx.
ExecutionResult(c, all, idx, call) ==
  [status |-> "resolved",
   result |-> [from |-> c.modelName, call |-> call],
   modelUsed |-> c.modelName,
   attempts |-> all,
   fallbacksUsed |-> idx]

\* executeWithRetry, loop head to the await: onAttempt hook, then fn() is
\* invoked under withTimeout.
StartAttempt(idx, att, h) ==
  LET c == modelsToTry[idx + 1] IN
  /\ i' = idx
  /\ attempt' = att
  /\ hooks' = Append(h, [hook |-> "onAttempt", modelName |-> c.modelName,
                         provider |-> c.provider, attemptNumber |-> att + 1])
  /\ calls' = Append(calls, [id |-> Len(calls) + 1, modelName |-> c.modelName])
  /\ pc' = "awaitOp"

lastFailure_First(failed) == failed[1]

\* const lastFailure = failedModels[failedModels.length - 1];
lastFailure(failed) == failed[Len(failed)]

\* executeWithFallbacks, one turn of the candidate loop up to the await of
\* executeWithRetry, or the throw after the loop.
TryCandidate(idx, failed) ==
  /\ failedModels' = failed
  /\ attempts' = <<>>
  /\ IF idx < Len(modelsToTry)
       THEN /\ lastError' = {}
            /\ StartAttempt(idx, 0,
                 IF idx > 0 /\ Len(failed) > 0
                   THEN Append(hooks,
                          [hook |-> "onFallback",
                           from |-> lastFailure(failed).modelName,
                           to |-> modelsToTry[idx + 1].modelName,
                           error |-> lastFailure(failed).error])
                   ELSE hooks)
            /\ UNCHANGED outcome
       ELSE /\ pc' = "rejected"
            /\ outcome' = [status |-> "rejected",
                           error |-> AllModelsFailedError(failed)]
            /\ lastError' = {}
            /\ UNCHANGED <<i, attempt, hooks, calls>>

\* executeWithFallbacks is called.
Execute ==
  /\ pc = "init"
  /\ IF noModels
       THEN /\ pc' = "rejected"
            /\ outcome' = [status |-> "rejected", error |-> NoModelsError]
            /\ UNCHANGED <<i, attempt, attempts, lastError, failedModels,
                           hooks, calls>>
       ELSE TryCandidate(0, <<>>)
  /\ UNCHANGED <<candidates, options, allAttempts, sleeps, abandoned>>
  /\ UNCHANGED <<input, output, chunks, streamError, configVars>>

nextCandidate_SkipsOne(idx) == idx + 2

\* for (let i = 0; i < modelsToTry.length; i++): the loop's i++.
nextCandidate(idx) == idx + 1

\* executeWithRetry's catch block for the error err of the awaited attempt,
\* then either the backoff sleep or the throw of lastError into
\* executeWithFallbacks' catch block.
AttemptFailed(err) ==
  LET c == modelsToTry[i + 1]
      classified == classifyError(err)
      recorded == Append(attempts,
                    [modelName |-> c.modelName, provider |-> c.provider,
                     success |-> FALSE, error |-> err])
  IN
  IF ~breaksLoop(classified) /\ ~isLastAttempt(attempt)
    THEN /\ attempts' = recorded
         /\ lastError' = setLastError(lastError, err)
         /\ sleeps' = Append(sleeps,
                        [delay |-> backoffDelay(attempt), after |-> current])
         /\ pc' = "sleeping"
         /\ UNCHANGED <<i, attempt, allAttempts, failedModels, outcome,
                        hooks, calls>>
    ELSE LET thrown == OrDefault(setLastError(lastError, err), UnknownError)
             failed == Append(failedModels,
                         [modelName |-> c.modelName, error |-> thrown])
         IN /\ UNCHANGED <<allAttempts, sleeps>>
            /\ IF abortsExecution(classifyError(thrown))
                 THEN /\ pc' = "rejected"
                      /\ outcome' = [status |-> "rejected", error |-> thrown]
                      /\ failedModels' = failed
                      /\ attempts' = <<>>
                      /\ lastError' = {}
                      /\ UNCHANGED <<i, attempt, hooks, calls>>
                 ELSE TryCandidate(nextCandidate(i), failed)

\* The awaited operation resolves before the timer fires.
OpResolve ==
  /\ pc = "awaitOp"
  /\ LET c == modelsToTry[i + 1]
         all == allAttempts \o
                  Append(attempts,
                    [modelName |-> c.modelName, provider |-> c.provider,
                     success |-> TRUE])
     IN /\ allAttempts' = all
        /\ hooks' = Append(hooks, [hook |-> "onSuccess",
                                   modelName |-> c.modelName,
                                   attempts |-> all])
        /\ outcome' = ExecutionResult(c, all, i, current)
  /\ attempts' = <<>>
  /\ lastError' = {}
  /\ pc' = "resolved"
  /\ UNCHANGED <<candidates, options, i, attempt, failedModels,
                 calls, sleeps, abandoned>>
  /\ UNCHANGED <<input, output, chunks, streamError, configVars>>

\* The awaited operation rejects before the timer fires.
OpReject ==
  /\ pc = "awaitOp"
  /\ \E m \in ErrorMessages :
       AttemptFailed(FnError(m, current))
  /\ UNCHANGED <<candidates, options, abandoned>>
  /\ UNCHANGED <<input, output, chunks, streamError, configVars>>

\* withTimeout's timer fires first: the attempt rejects with TimeoutError
\* and the operation itself is left running.
timerPending_NoTimer(p) == FALSE

\* const timer = setTimeout(() => reject(new TimeoutError(timeoutMs)),
\* timeoutMs): armed for as long as the attempt is awaited.
timerPending(p) == p = "awaitOp"

TimeoutFires ==
  /\ timerPending(pc)
  /\ AttemptFailed(TimeoutError(timeout, current))
  /\ abandoned' = abandoned + 1
  /\ UNCHANGED <<candidates, options>>
  /\ UNCHANGED <<input, output, chunks, streamError, configVars>>

\* The backoff sleep ends; the loop goes round.
SleepDone ==
  /\ pc = "sleeping"
  /\ StartAttempt(i, attempt + 1, hooks)
  /\ UNCHANGED <<candidates, options, attempts, lastError, allAttempts,
                 failedModels, outcome, sleeps, abandoned>>
  /\ UNCHANGED <<input, output, chunks, streamError, configVars>>

\* An operation abandoned by a timeout settles later; withTimeout's
\* resolve/reject on the already rejected promise has no effect.
AbandonedSettles ==
  /\ abandoned > 0
  /\ abandoned' = abandoned - 1
  /\ UNCHANGED <<candidates, options, pc, i, attempt, attempts, lastError,
                 allAttempts, failedModels, outcome, hooks, calls, sleeps>>
  /\ UNCHANGED <<input, output, chunks, streamError, configVars>>

Next ==
  \/ Execute
  \/ OpResolve
  \/ OpReject
  \/ TimeoutFires
  \/ SleepDone
  \/ AbandonedSettles

Spec == Init /\ [][Next]_vars

\* A timer set by withTimeout fires unless it is cleared first: weak
\* fairness of TimeoutFires, WF_vars(TimeoutFires), written out with the
\* action's guard in the place of ENABLED <<TimeoutFires>>_vars
\* (TimerGuardIsEnabled).
TimerFires ==
  \/ []<>(~timerPending(pc))
  \/ []<><<TimeoutFires>>_vars

\* The same program under the scheduling the runtime gives: the call is
\* made, and a timer set by setTimeout (withTimeout's, sleep's) fires
\* unless it is cleared first. Nothing is assumed of the operation: it
\* need never settle.
SpecTimers ==
  /\ Init /\ [][Next]_vars
  /\ WF_vars(Execute)
  /\ WF_vars(SleepDone)
  /\ TimerFires

\* TimeoutFires can take a step exactly when the timer is pending.
TimerGuardIsEnabled ==
  timerPending(pc) <=> ENABLED <<TimeoutFires>>_vars

\* ============================================== query parser (parser.ts)
\* A string is the sequence of its characters.
Letters ==
  { "a", "b", "c", "d", "e", "f", "g", "h", "i", "j", "k", "l",
    "m", "n", "o", "p", "q", "r", "s", "t", "u", "v", "w", "x",
    "y", "z",
    "A", "B", "C", "D", "E", "F", "G", "H", "I", "J", "K", "L",
    "M", "N", "O", "P", "Q", "R", "S", "T", "U", "V", "W", "X",
    "Y", "Z" }

DigitChars == <<"0", "1", "2", "3", "4", "5", "6", "7", "8", "9">>

IsDigit(c) == \E n \in 1..10 : DigitChars[n] = c
\* [a-z_] and [a-z0-9_] under the i flag
IsIdentStart(c) == c \in Letters \cup {"_"}
IsIdentChar(c) == IsIdentStart(c) \/ IsDigit(c)
\* \s, and the characters String.prototype.trim strips
IsSpace(c) == c = " "

SetMin(S) == CHOOSE x \in S : \A y \in S : x <= y
SetMax(S) == CHOOSE x \in S : \A y \in S : x >= y

\* String.prototype.trim
trim(s) ==
  LET idx == {k \in 1..Len(s) : ~IsSpace(s[k])} IN
  IF idx = {} THEN <<>> ELSE SubSeq(s, SetMin(idx), SetMax(idx))

\* String.prototype.split(sep) for a one-character separator
RECURSIVE split(_, _)
split(s, sep) ==
  LET idx == {k \in 1..Len(s) : s[k] = sep} IN
  IF idx = {} THEN <<s>>
  ELSE LET k == SetMin(idx) IN
       <<SubSeq(s, 1, k - 1)>> \o split(SubSeq(s, k + 1, Len(s)), sep)

\* Array.prototype.join(sep)
RECURSIVE join(_, _)
join(parts, sep) ==
  IF Len(parts) = 0 THEN <<>>
  ELSE IF Len(parts) = 1 THEN parts[1]
  ELSE parts[1] \o sep \o join(Tail(parts), sep)

\* Array.prototype.map(t => t.trim())
RECURSIVE mapTrim(_)
mapTrim(parts) ==
  IF Len(parts) = 0 THEN <<>>
  ELSE <<trim(parts[1])>> \o mapTrim(Tail(parts))

\* s.startsWith(c) for a one-character c
startsWith(s, c) == Len(s) > 0 /\ s[1] = c
endsWith(s, c) == Len(s) > 0 /\ s[Len(s)] = c

\* parseInt(digits, 10) for a string of decimal digits
RECURSIVE parseInt(_)
parseInt(digits) ==
  IF Len(digits) = 0 THEN 0
  ELSE 10 * parseInt(SubSeq(digits, 1, Len(digits) - 1))
         + (CHOOSE n \in 0..9 : DigitChars[n + 1] = digits[Len(digits)])

\* s.match(/^(.+):(\d+)$/): {} when there is no match, else the one match
\* [base |-> group 1, digits |-> group 2].  The digits run to the end of the
\* string, so the colon is the last one, with at least one character before
\* it and one digit after it.
weightMatch(s) ==
  LET colons == {k \in 1..Len(s) : s[k] = ":"} IN
  IF colons = {} THEN {}
  ELSE LET p == SetMax(colons) IN
       IF /\ p > 1
          /\ p < Len(s)
          /\ \A k \in (p + 1)..Len(s) : IsDigit(s[k])
         THEN {[base |-> SubSeq(s, 1, p - 1),
                digits |-> SubSeq(s, p + 1, Len(s))]}
         ELSE {}

\* /^[a-z_][a-z0-9_]*$/i.test(s)
isIdentifier(s) ==
  /\ Len(s) > 0
  /\ IsIdentStart(s[1])
  /\ \A k \in 2..Len(s) : IsIdentChar(s[k])

\* An AttributeValue is [type, num, str]: a boolean keeps its truth value
\* in num (1 or 0), a number its value in num, a string its text in str.
BooleanValue(b) == [type |-> "boolean", num |-> IF b THEN 1 ELSE 0, str |-> <<>>]
NumberValue(n) == [type |-> "number", num |-> n, str |-> <<>>]
StringValue(t) == [type |-> "string", num |-> 0, str |-> t]

\* parseValue.  Number(rawValue) is modelled for strings of decimal digits;
\* every other string of the inputs is NaN (no sign, fraction, exponent,
\* radix prefix or Infinity occurs in them).
parseValue(rawValue) ==
  IF rawValue = <<"t", "r", "u", "e">> THEN BooleanValue(TRUE)
  ELSE IF rawValue = <<"f", "a", "l", "s", "e">> THEN BooleanValue(FALSE)
  ELSE IF \A k \in 1..Len(rawValue) : IsDigit(rawValue[k])
    THEN NumberValue(parseInt(rawValue))
  ELSE IF /\ Len(rawValue) >= 2
          /\ \/ startsWith(rawValue, "\"") /\ endsWith(rawValue, "\"")
             \/ startsWith(rawValue, "'") /\ endsWith(rawValue, "'")
    THEN StringValue(SubSeq(rawValue, 2, Len(rawValue) - 1))
  ELSE StringValue(rawValue)

\* The alternatives of (>=|<=|!=|>|<|=), in the order they are tried.
ComparisonOperators ==
  << <<">", "=">>, <<"<", "=">>, <<"!", "=">>, <<">">>, <<"<">>, <<"=">> >>

\* s.match(/^([a-z_][a-z0-9_]*)\s*(>=|<=|!=|>|<|=)\s*(.+)$/i): {} when there
\* is no match, else [attribute, operator, rawValue] with rawValue group 3.
comparisonMatch(s) ==
  IF Len(s) = 0 \/ ~IsIdentStart(s[1]) THEN {}
  ELSE
    LET nonIdent == {k \in 2..Len(s) : ~IsIdentChar(s[k])} IN
    IF nonIdent = {} THEN {}
    ELSE
      LET a == SetMin(nonIdent)       \* first character after the attribute
          nonSpace == {k \in a..Len(s) : ~IsSpace(s[k])}
      IN
      IF nonSpace = {} THEN {}
      ELSE
        LET o == SetMin(nonSpace)     \* where the operator must start
            fits(op) == /\ o + Len(op) - 1 < Len(s)
                        /\ SubSeq(s, o, o + Len(op) - 1) = op
            alts == {n \in 1..Len(ComparisonOperators) :
                       fits(ComparisonOperators[n])}
        IN
        IF alts = {} THEN {}
        ELSE LET op == ComparisonOperators[SetMin(alts)] IN
             {[attribute |-> SubSeq(s, 1, a - 1),
               operator |-> op,
               rawValue |-> SubSeq(s, o + Len(op), Len(s))]}

\* new Error(`Invalid query condition: "${trimmed}"`)
InvalidConditionError(trimmed) ==
  [name |-> "Error", message |-> <<"invalid", "query", "condition">>,
   nums |-> {}, id |-> 0, token |-> trimmed]

\* new Error('Empty query')
EmptyQueryError ==
  [name |-> "Error", message |-> <<"empty", "query">>, nums |-> {}, id |-> 0]

\* What a call gives back: it threw error, or it returned value.
Throw(e) == [error |-> {e}, value |-> {}]
Return(v) == [error |-> {}, value |-> {v}]

defaultWeight_FromOne(position, totalConditions) == position + 1

\* let weight = totalConditions - position;
defaultWeight(position, totalConditions) == totalConditions - position

\* parseToken from the comparison match on: cm is comparisonMatch of
\* conditionPart.
parseCondition(trimmed, conditionPart, cm, negated, weight) ==
  IF cm # {}
    THEN LET m == CHOOSE x \in cm : TRUE IN
         Return([attribute |-> m.attribute, operator |-> m.operator,
                 value |-> parseValue(trim(m.rawValue)),
                 negated |-> negated, weight |-> weight])
  ELSE IF isIdentifier(conditionPart)
    THEN Return([attribute |-> conditionPart, operator |-> <<"=">>,
                 value |-> BooleanValue(TRUE),
                 negated |-> negated, weight |-> weight])
  ELSE Throw(InvalidConditionError(trimmed))

\* parseToken from the negation check on: part is conditionPart after the
\* weight suffix is taken off.
parseNegation(trimmed, part, weight) ==
  IF startsWith(part, "!")
    THEN parseCondition(trimmed, trim(SubSeq(part, 2, Len(part))),
                        comparisonMatch(trim(SubSeq(part, 2, Len(part)))),
                        TRUE, weight)
    ELSE parseCondition(trimmed, part, comparisonMatch(part), FALSE, weight)

\* parseToken from the weight match on: wm is weightMatch of trimmed.
parseWeight(trimmed, wm, position, totalConditions) ==
  IF wm = {}
    THEN parseNegation(trimmed, trimmed,
                       defaultWeight(position, totalConditions))
    ELSE parseNegation(trimmed, trim((CHOOSE m \in wm : TRUE).base),
                       parseInt((CHOOSE m \in wm : TRUE).digits))

parseToken(token, position, totalConditions) ==
  parseWeight(trim(token), weightMatch(trim(token)), position, totalConditions)

\* aliases[name]: the Aliases object is a set of [name, value] entries with
\* one entry per name; undefined is {}.
aliasLookup(aliases, name) ==
  {e.value : e \in {x \in aliases : x.name = name}}

expandFound_NegatesFirst(token, found, negated, weightSuffix) ==
  IF found # {} /\ found # {<<>>}
    THEN (IF negated THEN <<"!">> ELSE <<>>)
           \o (CHOOSE v \in found : TRUE) \o weightSuffix
    ELSE token

\* expandAliases' callback from the alias lookup on: found is
\* aliases[lookupToken].
expandFound(token, found, negated, weightSuffix) ==
  IF found # {} /\ found # {<<>>}
    THEN LET aliasValue == CHOOSE v \in found : TRUE IN
         (IF negated THEN <<"!", "(">> \o aliasValue \o <<")">>
                     ELSE aliasValue) \o weightSuffix
    ELSE token

\* expandAliases' callback from the negation check on.
expandBase(token, aliases, baseToken, weightSuffix) ==
  IF startsWith(baseToken, "!")
    THEN expandFound(token,
           aliasLookup(aliases, SubSeq(baseToken, 2, Len(baseToken))),
           TRUE, weightSuffix)
    ELSE expandFound(token, aliasLookup(aliases, baseToken),
                     FALSE, weightSuffix)

\* expandAliases' callback from the weight match on: wm is weightMatch of
\* token.
expandWeight(token, aliases, wm) ==
  IF wm = {}
    THEN expandBase(token, aliases, token, <<>>)
    ELSE expandBase(token, aliases, trim((CHOOSE m \in wm : TRUE).base),
                    <<":">> \o (CHOOSE m \in wm : TRUE).digits)

\* expandAliases' callback for one (trimmed) token.
expandToken(token, aliases) == expandWeight(token, aliases, weightMatch(token))

RECURSIVE mapExpand(_, _)
mapExpand(tokens, aliases) ==
  IF Len(tokens) = 0 THEN <<>>
  ELSE <<expandToken(tokens[1], aliases)>> \o mapExpand(Tail(tokens), aliases)

expandAliases_Twice(query, aliases) ==
  join(mapExpand(mapTrim(split(
         join(mapExpand(mapTrim(split(query, ",")), aliases), <<",", " ">>),
         ",")), aliases), <<",", " ">>)

\* One pass over the tokens of the query: split, trim, expand, join.
expandAliases(query, aliases) ==
  join(mapExpand(mapTrim(split(query, ",")), aliases), <<",", " ">>)

RECURSIVE mapParse(_, _, _)

mapParsed_SkipsInvalid(tokens, index, done, r) ==
  mapParse(tokens, index + 1,
           IF r.error # {} THEN done
           ELSE Append(done, CHOOSE c \in r.value : TRUE))

\* The map's step for the token at index, parsed as r: a token that throws
\* ends the map.
mapParsed(tokens, index, done, r) ==
  IF r.error # {} THEN r
  ELSE mapParse(tokens, index + 1, Append(done, CHOOSE c \in r.value : TRUE))

\* tokens.map((token, index) => parseToken(token, index, tokens.length))
mapParse(tokens, index, done) ==
  IF index >= Len(tokens) THEN Return(done)
  ELSE mapParsed(tokens, index, done,
                 parseToken(tokens[index + 1], index, Len(tokens)))

\* .filter((t) => t.length > 0)
nonBlank(parts) == SelectSeq(parts, LAMBDA t : Len(t) > 0)

\* return { conditions }, unless the map threw.
parsedQuery(r) ==
  IF r.error # {} THEN r
  ELSE Return([conditions |-> CHOOSE c \in r.value : TRUE])

\* parseQuery from the empty check on.
parseTokens(tokens) ==
  IF Len(tokens) = 0 THEN Throw(EmptyQueryError)
  ELSE parsedQuery(mapParse(tokens, 0, <<>>))

parseQuery(query, aliases) ==
  parseTokens(nonBlank(mapTrim(split(expandAliases(query, aliases), ","))))

\* ------------------------------------------------ parseQuery on its own
\* Largest number of comma-separated tokens in a query.
MaxTokens == 3

\* The tokens queries are made of: a bare identifier, a negation, an
\* explicit weight, a comparison, a blank token, a token that is no
\* condition, an alias name, and a spaced comparison with weight 0.
SampleTokens ==
  { <<"a">>,
    <<"!", "b">>,
    <<"a", ":", "2">>,
    <<"c", "<", "=", "5">>,
    <<" ">>,
    <<"1", "x">>,
    <<"f">>,
    <<" ", "b", " ", "=", " ", "x", " ", ":", "0">> }

\* The Aliases objects tried: none, one whose alias f stands for two
\* conditions, one whose alias f refers to itself, and one whose aliases f
\* and b refer to each other.
AliasInputs ==
  { {},
    {[name |-> <<"f">>, value |-> <<"b", ",", " ", "c", ">", "=", "2">>]},
    {[name |-> <<"f">>, value |-> <<"f", ",", "a">>]},
    {[name |-> <<"f">>, value |-> <<"b">>],
     [name |-> <<"b">>, value |-> <<"f">>]} }

Queries ==
  UNION {{join(ts, <<",">>) : ts \in [1..n -> SampleTokens]} : n \in 1..MaxTokens}

\* Queries that use the alias f with a weight suffix or negated.
AliasQueries ==
  { <<"f", ":", "3">>,
    <<"a", ",", "f", ":", "3">>,
    <<"!", "f">>,
    <<"!", "f", ":", "3">>,
    <<"a", ",", "!", "f">> }

ParseInputs ==
  {[query |-> q, aliases |-> al] :
     q \in Queries \cup AliasQueries, al \in AliasInputs}

\* No engine run is in progress.
EngineIdle ==
  /\ candidates = <<>>
  /\ options = [fallbackCount |-> {}, maxRetries |-> {},
                retryDelay |-> {}, timeout |-> {}]
  /\ pc = "init"
  /\ i = 0
  /\ attempt = 0
  /\ attempts = <<>>
  /\ lastError = {}
  /\ allAttempts = <<>>
  /\ failedModels = <<>>
  /\ outcome = <<>>
  /\ hooks = <<>>
  /\ calls = <<>>
  /\ sleeps = <<>>
  /\ abandoned = 0
  /\ chunks = <<>>
  /\ streamError = {}

InitParse ==
  /\ ConfigIdle
  /\ input \in ParseInputs
  /\ output = <<>>
  /\ EngineIdle

\* parseQuery(query, aliases) is called.
ParseQuery ==
  /\ output = <<>>
  /\ output' = parseQuery(input.query, input.aliases)
  /\ UNCHANGED <<engineVars, input, chunks, streamError, configVars>>

NextParse == ParseQuery

SpecParse == InitParse /\ [][NextParse]_vars

\* ================================================= matcher (matcher.ts)
\* Property names every plain object inherits from Object.prototype (the
\* ones short enough to occur in the queries tried).
ObjectPrototypeNames ==
  { <<"v", "a", "l", "u", "e", "O", "f">>,
    <<"t", "o", "S", "t", "r", "i", "n", "g">> }

\* The value of an inherited property: a function, which is no boolean,
\* number or string and is === to no AttributeValue.
InheritedValue == [type |-> "function", num |-> 0, str |-> <<>>]

\* attributes[name]: a ModelAttributes object is a plain object (z.record
\* output, or an object literal), kept as a set of [name, value] entries
\* with one entry per name.  The property read gives the own entry when
\* there is one, else what Object.prototype holds under that name, else
\* undefined, which is {}.
attributeLookup(attributes, name) ==
  LET own == {e.value : e \in {x \in attributes : x.name = name}} IN
  IF own # {} THEN own
  ELSE IF name \in ObjectPrototypeNames THEN {InheritedValue}
  ELSE {}

bothNumbers_Unchecked(attrValue, value) == TRUE

\* typeof attrValue === 'number' && typeof condition.value === 'number'
bothNumbers(attrValue, value) ==
  attrValue.type = "number" /\ value.type = "number"

evaluateCondition(condition, attributes) ==
  LET found == attributeLookup(attributes, condition.attribute) IN
  IF found = {} THEN condition.negated
  ELSE
    LET attrValue == CHOOSE v \in found : TRUE
        op == condition.operator
        numbers == bothNumbers(attrValue, condition.value)
        result ==
          IF op = <<"=">> THEN attrValue = condition.value
          ELSE IF op = <<"!", "=">> THEN attrValue # condition.value
          ELSE IF op = <<">">> THEN numbers /\ attrValue.num > condition.value.num
          ELSE IF op = <<">", "=">> THEN numbers /\ attrValue.num >= condition.value.num
          ELSE IF op = <<"<">> THEN numbers /\ attrValue.num < condition.value.num
          ELSE IF op = <<"<", "=">> THEN numbers /\ attrValue.num <= condition.value.num
          ELSE FALSE
    IN IF condition.negated THEN ~result ELSE result

addScore_CountsConditions(score, condition) == score + 1

\* score += condition.weight;
addScore(score, condition) == score + condition.weight

\* matchModel's loop over query.conditions from index k on; r holds
\* score, maxScore, matchedAttributes and missingAttributes.
RECURSIVE matchLoop(_, _, _, _)
matchLoop(attributes, conditions, k, r) ==
  IF k > Len(conditions) THEN r
  ELSE
    LET condition == conditions[k]
        counted == [r EXCEPT !.maxScore = @ + condition.weight]
    IN
    matchLoop(attributes, conditions, k + 1,
      IF evaluateCondition(condition, attributes)
        THEN [counted EXCEPT
                !.score = addScore(@, condition),
                !.matchedAttributes = Append(@, condition.attribute)]
        ELSE [counted EXCEPT
                !.missingAttributes = Append(@, condition.attribute)])

matchModel(attributes, query) ==
  LET r == matchLoop(attributes, query.conditions, 1,
             [score |-> 0, maxScore |-> 0,
              matchedAttributes |-> <<>>, missingAttributes |-> <<>>])
  IN [matches |-> r.score > 0,
      score |-> r.score,
      maxScore |-> r.maxScore,
      exactMatch |-> r.score = r.maxScore,
      matchedAttributes |-> r.matchedAttributes,
      missingAttributes |-> r.missingAttributes]

\* The attribute maps tried: an empty one and three over the attributes
\* a, b and c of the sample tokens.
AttributeInputs ==
  { {},
    { [name |-> <<"a">>, value |-> BooleanValue(TRUE)],
      [name |-> <<"b">>, value |-> BooleanValue(FALSE)],
      [name |-> <<"c">>, value |-> NumberValue(7)] },
    { [name |-> <<"a">>, value |-> BooleanValue(FALSE)],
      [name |-> <<"b">>, value |-> StringValue(<<"x">>)],
      [name |-> <<"c">>, value |-> NumberValue(2)] },
    { [name |-> <<"a">>, value |-> BooleanValue(TRUE)],
      [name |-> <<"c">>, value |-> NumberValue(5)] } }

\* Conditions on the attribute d, which no map of AttributeInputs has,
\* with every operator, negated and not, and on an inherited property name.
AbsentTokens ==
  { <<"d">>,
    <<"!", "d">>,
    <<"d", "=", "1">>,
    <<"!", "d", "=", "x">>,
    <<"d", "!", "=", "1">>,
    <<"!", "d", "!", "=", "x">>,
    <<"d", ">", "1">>,
    <<"!", "d", ">", "1">>,
    <<"d", ">", "=", "1">>,
    <<"!", "d", ">", "=", "x">>,
    <<"d", "<", "1">>,
    <<"!", "d", "<", "1">>,
    <<"d", "<", "=", "x">>,
    <<"!", "d", "<", "=", "1">>,
    <<"v", "a", "l", "u", "e", "O", "f", "!", "=", "1">> }

\* Ordering conditions whose stored value (b is a boolean or a string in
\* the maps that have it) or whose target value (x) is not a number, with
\* every ordering operator, negated and not.
MixedTypeTokens ==
  { <<"b", "<", "1">>,
    <<"!", "b", "<", "1">>,
    <<"b", ">", "=", "0">>,
    <<"!", "b", ">", "=", "0">>,
    <<"b", ">", "x">>,
    <<"!", "b", ">", "x">>,
    <<"c", "<", "=", "x">>,
    <<"!", "c", "<", "=", "x">>,
    <<"c", ">", "t", "r", "u", "e">>,
    <<"!", "c", "<", "t", "r", "u", "e">>,
    <<"a", ",", "!", "b", ">", "1">> }

\* One absent-attribute condition, alone or after a sample token.
AbsentQueries ==
  AbsentTokens \cup
    {join(<<t, u>>, <<",">>) : t \in {<<"a">>, <<"!", "b">>}, u \in AbsentTokens}

\* Attribute maps paired with the queries that parse.
MatchInputs ==
  {[attributes |-> at, query |-> q] :
     at \in AttributeInputs,
     q \in {x \in Queries \cup AbsentQueries \cup MixedTypeTokens :
              parseQuery(x, {}).error = {}}}

InitMatch ==
  /\ ConfigIdle
  /\ input \in MatchInputs
  /\ output = <<>>
  /\ EngineIdle

\* rankModels' step for one model: matchModel(model.attributes, parsed).
MatchModel ==
  /\ output = <<>>
  /\ LET parsed == parseQuery(input.query, {}) IN
     output' = matchModel(input.attributes, CHOOSE v \in parsed.value : TRUE)
  /\ UNCHANGED <<engineVars, input, chunks, streamError, configVars>>

NextMatch == MatchModel

SpecMatch == InitMatch /\ [][NextMatch]_vars

\* ------------------------------------------------ classifyError on its own
\* error with the property prop set to the value in choice, or left as it
\* is when choice is {}.
withProp(error, prop, choice) ==
  IF choice = {} THEN error
  ELSE [x \in DOMAIN error \cup {prop} |->
          IF x = prop THEN CHOOSE v \in choice : TRUE ELSE error[x]]

\* error.message of the errors classified: [words, nums].
ClassifyMessages ==
  { [words |-> <<"something", "unexpected", "happened">>, nums |-> {}],
    [words |-> <<"api", "error">>, nums |-> {}],
    [words |-> <<"rate", "limit", "exceeded">>, nums |-> {}],
    [words |-> <<"unauthorized", "invalid", "api", "key">>, nums |-> {}],
    [words |-> <<"bad", "request", "timed", "out">>, nums |-> {}],
    [words |-> <<"network", "error", "too", "many">>, nums |-> {}],
    [words |-> <<"request", "failed", "with", "status">>, nums |-> {429}],
    [words |-> <<"service", "unavailable">>, nums |-> {503}] }

\* error.status: absent, a number, or the string "429".
StatusInputs ==
  { {}, {numberProp(429)}, {numberProp(401)}, {numberProp(400)},
    {stringProp(<<"#">>, {429})} }

\* error.statusCode: absent or a number.
StatusCodeInputs == { {}, {numberProp(500)}, {numberProp(200)} }

\* error.code: absent, a string, or the number 400.
CodeInputs ==
  { {}, {stringProp(<<"econnreset">>, {})}, {stringProp(<<"requests">>, {})},
    {numberProp(400)} }

\* error.cause: absent, an object with a message, or the string
\* "forbidden" (kept in the message field of a cause of type string).
CauseInputs ==
  { {},
    {[type |-> "object", message |-> stringProp(<<"quota", "exceeded">>, {})]},
    {[type |-> "object", message |-> stringProp(<<"socket", "hang", "up">>, {})]},
    {[type |-> "string", message |-> stringProp(<<"forbidden">>, {})]} }

ClassifyInputs ==
  { withProp(withProp(withProp(withProp(
      [name |-> "Error", message |-> m.words, nums |-> m.nums, id |-> 0],
      "status", st), "statusCode", sc), "code", co), "cause", ca) :
      m \in ClassifyMessages, st \in StatusInputs, sc \in StatusCodeInputs,
      co \in CodeInputs, ca \in CauseInputs }

InitClassify ==
  /\ ConfigIdle
  /\ input \in ClassifyInputs
  /\ output = <<>>
  /\ EngineIdle

\* classifyError(error) is called.
Classify ==
  /\ output = <<>>
  /\ output' = classifyError(input)
  /\ UNCHANGED <<engineVars, input, chunks, streamError, configVars>>

NextClassify == Classify

SpecClassify == InitClassify /\ [][NextClassify]_vars

\* ======================================= streaming (generate.ts stream())
\* Largest number of chunks one candidate's stream yields.
MaxChunks == 2

\* new Error('No models configured or all models are disabled')
NoEnabledModelsError ==
  [name |-> "Error",
   message |-> <<"no", "models", "configured", "or", "all", "models",
                 "are", "disabled">>,
   nums |-> {}, id |-> 0]

\* new Error('No models available')
StreamNoModelsError ==
  [name |-> "Error", message |-> <<"no", "models", "available">>,
   nums |-> {}, id |-> 0]

\* rankModels(query, config): the config is given by its aliases and the
\* number of its enabled models; the ranked models are named by their rank.
rankParsed(parsed, enabled) ==
  IF parsed.error # {} THEN [error |-> parsed.error, value |-> {}]
  ELSE IF enabled = 0 THEN Throw(NoEnabledModelsError)
  ELSE Return([k \in 1..enabled |-> Candidate(k)])

rankModels(query, aliases, enabled) ==
  rankParsed(parseQuery(query, aliases), enabled)

\* selectModelsDetailed(query, { count })
selectRanked(ranked, count) ==
  IF ranked.error # {} THEN ranked
  ELSE Return(slice(CHOOSE r \in ranked.value : TRUE, count))

selectModelsDetailed(query, aliases, enabled, count) ==
  selectRanked(rankModels(query, aliases, enabled), count)

\* The queries stream() is called with: one that parses, a blank one and
\* one that is no condition.
StreamQueries == {<<"a">>, <<" ">>, <<"1", "x">>}

StreamInputs ==
  {[query |-> q, aliases |-> {}, enabled |-> n] :
     q \in StreamQueries, n \in 0..MaxCandidates}

\* The messages a candidate's stream may fail with: one that allows the
\* fallback and one that does not.
StreamErrorMessages ==
  { <<"network", "error">>, <<"invalid", "request", "bad", "input">> }

InitStream ==
  /\ ConfigIdle
  /\ input \in StreamInputs
  /\ options \in {o \in OptionInputs : o.timeout = {}}
  /\ candidates = <<>>
  /\ pc = "init"
  /\ i = 0
  /\ attempt = 0
  /\ attempts = <<>>
  /\ lastError = {}
  /\ allAttempts = <<>>
  /\ failedModels = <<>>
  /\ outcome = <<>>
  /\ hooks = <<>>
  /\ calls = <<>>
  /\ sleeps = <<>>
  /\ abandoned = 0
  /\ output = <<>>
  /\ chunks = <<>>
  /\ streamError = {}

\* resolveResult / rejectResult: a promise keeps its first settlement.
settle(promise, settlement) ==
  IF promise = <<>> THEN settlement ELSE promise

\* The generator throws error without rejecting the deferred result.
StreamThrow(error) ==
  /\ pc' = "threw"
  /\ streamError' = {error}

\* rejectResult?.(error); throw error;
StreamReject(error) ==
  /\ outcome' = settle(outcome, [status |-> "rejected", error |-> error])
  /\ StreamThrow(error)

\* One turn of the candidate loop up to the for await: onModelSwitch,
\* onFallback, onAttempt, then streamText(...) is called.
StreamCandidate(cs, idx, failed) ==
  LET c == cs[idx + 1]
      switch == Append(hooks, [hook |-> "onModelSwitch",
                               modelName |-> c.modelName,
                               isRetry |-> idx > 0])
      fallback == IF idx > 0 /\ Len(failed) > 0
                    THEN Append(switch,
                           [hook |-> "onFallback",
                            from |-> failed[Len(failed)].modelName,
                            to |-> c.modelName,
                            error |-> failed[Len(failed)].error])
                    ELSE switch
  IN
  /\ i' = idx
  /\ hooks' = Append(fallback, [hook |-> "onAttempt",
                                modelName |-> c.modelName,
                                provider |-> c.provider,
                                attemptNumber |-> idx + 1])
  /\ calls' = Append(calls, [id |-> Len(calls) + 1,
                             modelName |-> c.modelName, emitted |-> 0])
  /\ pc' = "streaming"

\* generateStream from the return of selectModelsDetailed (selections) to
\* the first for await.
StreamSelected(selections) ==
  IF selections.error # {}
    THEN /\ StreamThrow(CHOOSE e \in selections.error : TRUE)
         /\ UNCHANGED <<candidates, i, hooks, calls, outcome>>
    ELSE LET cs == CHOOSE v \in selections.value : TRUE IN
         /\ candidates' = cs
         /\ IF Len(cs) = 0
              THEN /\ StreamReject(StreamNoModelsError)
                   /\ UNCHANGED <<i, hooks, calls>>
              ELSE /\ StreamCandidate(cs, 0, <<>>)
                   /\ UNCHANGED <<outcome, streamError>>

\* The consumer asks for the first chunk: the generator selects the models
\* and enters the candidate loop.
StreamStart ==
  /\ UNCHANGED configVars
  /\ pc = "init"
  /\ StreamSelected(selectModelsDetailed(input.query, input.aliases,
                                         input.enabled, fallbackCount))
  /\ UNCHANGED <<options, attempt, attempts, lastError, allAttempts,
                 failedModels, sleeps, abandoned, input, output, chunks>>

streamChunk_FirstCandidate(chunk, modelName) ==
  [text |-> chunk, modelName |-> candidates[1].modelName]

\* yield { text: chunk, modelName }
streamChunk(chunk, modelName) == [text |-> chunk, modelName |-> modelName]

\* textStream delivers a chunk and the generator yields it.
StreamChunk ==
  /\ UNCHANGED configVars
  /\ pc = "streaming"
  /\ calls[current].emitted < MaxChunks
  /\ calls' = [calls EXCEPT ![current].emitted = @ + 1]
  /\ chunks' = Append(chunks, streamChunk(calls[current].emitted + 1,
                                          candidates[i + 1].modelName))
  /\ UNCHANGED <<candidates, options, pc, i, attempt, attempts, lastError,
                 allAttempts, failedModels, outcome, hooks, sleeps,
                 abandoned, input, output, streamError>>

afterFailure_SameCandidate(idx) == IF calls[idx + 1].emitted > 0 THEN idx ELSE idx + 1

\* The catch block falls through to the loop's i++: the stream of the
\* next candidate is started, whatever the failed one had yielded.
afterFailure(idx) == idx + 1

\* The candidate's stream fails (at its start, between chunks or while its
\* usage, finish reason or text is awaited): the catch block.
StreamFail ==
  /\ UNCHANGED configVars
  /\ pc = "streaming"
  /\ \E m \in StreamErrorMessages :
       LET c == candidates[i + 1]
           err == FnError(m, current)
           classified == classifyError(err)
           failed == Append(failedModels,
                       [modelName |-> c.modelName, error |-> err])
       IN
       /\ attempts' = Append(attempts,
                        [modelName |-> c.modelName, provider |-> c.provider,
                         success |-> FALSE, error |-> err])
       /\ failedModels' = failed
       /\ IF ~classified.shouldFallback
            THEN /\ StreamReject(err)
                 /\ UNCHANGED <<i, hooks, calls>>
          ELSE IF i + 1 < Len(candidates)
            THEN /\ StreamCandidate(candidates, afterFailure(i), failed)
                 /\ UNCHANGED <<outcome, streamError>>
          ELSE /\ StreamReject(AllModelsFailedError(failed))
               /\ UNCHANGED <<i, hooks, calls>>
  /\ UNCHANGED <<candidates, options, attempt, lastError, allAttempts,
                 sleeps, abandoned, input, output, chunks>>

fullText_Stitched(call) == [k \in 1..Len(chunks) |-> chunks[k].text]

\* await result.text: the text of the stream of this call of streamText,
\* which is what the call emitted.
fullText(call) == [k \in 1..call.emitted |-> k]

\* The StreamResult built for candidate c at loop index idx.
StreamResult(c, atts, idx, call) ==
  [status |-> "resolved",
   text |-> fullText(call),
   modelUsed |-> c.modelName,
   attempts |-> atts,
   fallbacksUsed |-> idx]

\* The candidate's stream ends and its usage, finish reason and text
\* arrive: the attempt is recorded, the deferred result resolved, and the
\* generator returns.
StreamComplete ==
  /\ UNCHANGED configVars
  /\ pc = "streaming"
  /\ LET c == candidates[i + 1]
         atts == Append(attempts,
                   [modelName |-> c.modelName, provider |-> c.provider,
                    success |-> TRUE])
     IN /\ attempts' = atts
        /\ hooks' = Append(hooks, [hook |-> "onSuccess",
                                   modelName |-> c.modelName,
                                   attempts |-> atts])
        /\ outcome' = settle(outcome, StreamResult(c, atts, i, calls[current]))
  /\ pc' = "returned"
  /\ UNCHANGED <<candidates, options, i, attempt, lastError, allAttempts,
                 failedModels, calls, sleeps, abandoned, input, output,
                 chunks, streamError>>

\* The consumer stops iterating (break in its for await, or a call of
\* return()): the generator, not yet started or suspended at the yield,
\* is completed.  generateStream has no finally block, so no code of it
\* runs.
StreamClose ==
  /\ UNCHANGED configVars
  /\ \/ pc = "init"
     \/ pc = "streaming" /\ calls[current].emitted > 0
  /\ pc' = "closed"
  /\ UNCHANGED <<candidates, options, i, attempt, attempts, lastError,
                 allAttempts, failedModels, outcome, hooks, calls, sleeps,
                 abandoned, input, output, chunks, streamError>>

NextStream ==
  \/ StreamStart
  \/ StreamChunk
  \/ StreamFail
  \/ StreamComplete
  \/ StreamClose

SpecStream == InitStream /\ [][NextStream]_vars

\* ================================== ranking (index.ts, config/loader.ts)
\* Largest number of models in a configuration.
MaxModels == 3

isEnabled_Always(model) == TRUE

\* .filter(([, model]) => model.enabled)
isEnabled(model) == model.enabled

\* getEnabledModels(config): config.models is the sequence of the models
\* in the order Object.entries enumerates them.
RECURSIVE getEnabledModels(_)
getEnabledModels(models) ==
  IF models = <<>> THEN <<>>
  ELSE (IF isEnabled(models[1]) THEN <<models[1]>> ELSE <<>>)
         \o getEnabledModels(Tail(models))

\* normalizeScore(result): the quotient score / maxScore is kept as the
\* fraction [num, den]; 0 is 0/1.
normalizeScore(result) ==
  IF result.maxScore = 0 THEN [num |-> 0, den |-> 1]
  ELSE [num |-> result.score, den |-> result.maxScore]

\* The sign of x - y for two normalized scores.
scoreDifference(x, y) == x.num * y.den - y.num * x.den

\* rankModels' map callback for one enabled model.
rankedModel(model, matchResult) ==
  [name |-> model.name,
   matchResult |-> matchResult,
   normalizedScore |-> normalizeScore(matchResult)]

RECURSIVE mapRanked(_, _)
mapRanked(enabledModels, query) ==
  IF enabledModels = <<>> THEN <<>>
  ELSE <<rankedModel(enabledModels[1],
                     matchModel(enabledModels[1].attributes, query))>>
         \o mapRanked(Tail(enabledModels), query)

goesBefore_Ties(a, b) == scoreDifference(a.normalizedScore, b.normalizedScore) >= 0

\* The comparator (a, b) => b.normalizedScore - a.normalizedScore puts a
\* before an element b that preceded it when it is negative for (b, a).
goesBefore(a, b) == scoreDifference(a.normalizedScore, b.normalizedScore) > 0

\* Array.prototype.sort is stable: x, which comes after every element of
\* sorted in the array, goes behind the elements it does not go before.
insertSorted(sorted, x) ==
  LET before == {k \in 1..Len(sorted) : goesBefore(x, sorted[k])}
      at == IF before = {} THEN Len(sorted) + 1 ELSE SetMin(before)
  IN SubSeq(sorted, 1, at - 1) \o <<x>> \o SubSeq(sorted, at, Len(sorted))

\* ranked.sort((a, b) => b.normalizedScore - a.normalizedScore)
RECURSIVE sortRanked(_, _)
sortRanked(ranked, sorted) ==
  IF ranked = <<>> THEN sorted
  ELSE sortRanked(Tail(ranked), insertSorted(sorted, ranked[1]))

\* rankModels from the enabled models on.
rankEnabled(query, enabledModels) ==
  IF Len(enabledModels) = 0 THEN Throw(NoEnabledModelsError)
  ELSE Return(sortRanked(mapRanked(enabledModels, query), <<>>))

\* rankModels(query, config) with the models of the configuration in full.
rankConfig(parsed, models) ==
  IF parsed.error # {} THEN [error |-> parsed.error, value |-> {}]
  ELSE rankEnabled(CHOOSE v \in parsed.value : TRUE, getEnabledModels(models))

\* options.count ?? ranked.length
countOrAll(count, ranked) ==
  IF ranked.error # {} THEN 0
  ELSE OrDefault(count, Len(CHOOSE r \in ranked.value : TRUE))

\* selectModelsDetailed's ranked.slice(0, count) for a configuration.
selectConfig(ranked, count) == selectRanked(ranked, countOrAll(count, ranked))

\* The attribute maps of the ranked models.
RankAttributes == {at \in AttributeInputs : at # {}}

\* Configurations: up to MaxModels models, named by their place in the
\* enumeration, each enabled or not.
ConfigInputs ==
  UNION {[1..n -> [enabled : BOOLEAN, attributes : RankAttributes]]
           : n \in 0..MaxModels}

\* Queries with ties (a), with three different scores (a, c<=5), with a
\* zero maximal score (a:0) and one that does not parse.
RankQueries ==
  { <<"a">>,
    <<"a", ",", "c", "<", "=", "5">>,
    <<"a", ":", "0">>,
    <<"1", "x">> }

RankInputs ==
  {[query |-> q,
    models |-> [k \in DOMAIN c |->
                  [name |-> k, enabled |-> c[k].enabled,
                   attributes |-> c[k].attributes]],
    count |-> n] :
     q \in RankQueries, c \in ConfigInputs,
     n \in {{}, {0}, {2}, {MaxModels + 1}}}

InitRank ==
  /\ ConfigIdle
  /\ input \in RankInputs
  /\ output = <<>>
  /\ EngineIdle

\* selectModelsDetailed(query, { count }) up to the slice.
SelectModels ==
  /\ output = <<>>
  /\ output' = selectConfig(rankConfig(parseQuery(input.query, {}),
                                       input.models),
                            input.count)
  /\ UNCHANGED <<engineVars, input, chunks, streamError, configVars>>

NextRank == SelectModels

SpecRank == InitRank /\ [][NextRank]_vars

\* ================================================================= claims
\* Number of invocations of fn made for the candidate named m.
CallsOf(m) == Cardinality({k \in 1..Len(calls) : calls[k].modelName = m})

\* 0-based number of invocation id among the invocations of its candidate.
AttemptIndex(id) ==
  Cardinality({k \in 1..(id - 1) : calls[k].modelName = calls[id].modelName})

\* Last invocation made for the candidate named m (0 when there is none).
LastCallOf(m) ==
  IF CallsOf(m) = 0 THEN 0
  ELSE CHOOSE k \in 1..Len(calls) :
         /\ calls[k].modelName = m
         /\ \A j \in (k + 1)..Len(calls) : calls[j].modelName # m

\* The attempt records an error gives access to.
HistoryOf(error) ==
  IF "attempts" \in DOMAIN error THEN error.attempts ELSE <<>>

Retryable(error) == classifyError(error).shouldRetry
FallbackEligible(error) == classifyError(error).shouldFallback

\* C1: on success the returned attempts list has exactly one entry per
\* physical invocation of the operation made during the execution, in
\* invocation order (so 3 candidates, two failing every attempt with a
\* TRANSIENT error, the third succeeding at once, give
\* (1+maxRetries)*2 + 1 entries).
C1_AttemptsListEveryInvocation ==
  pc = "resolved" =>
    /\ Len(outcome.attempts) = Len(calls)
    /\ \A k \in 1..Len(calls) :
         outcome.attempts[k].modelName = calls[k].modelName

\* C2: a successful execution returns the result of the first candidate in
\* rank order with a successful attempt: modelUsed names it, fallbacksUsed
\* is the number of candidates that failed before it (its index), and the
\* successful invocation is the last invocation ever made.
C2_FirstSuccessWins ==
  pc = "resolved" =>
    LET k == outcome.fallbacksUsed IN
    /\ k \in 0..(Len(slice(candidates, fallbackCount)) - 1)
    /\ outcome.modelUsed = candidates[k + 1].modelName
    /\ outcome.result.from = outcome.modelUsed
    /\ outcome.result.call = Len(calls)
    /\ calls[Len(calls)].modelName = outcome.modelUsed
    /\ Len(failedModels) = k
    /\ \A j \in 1..k : failedModels[j].modelName = candidates[j].modelName
    /\ \A j \in 1..Len(calls) : calls[j].modelName <= outcome.modelUsed

C2_Witness ==
  /\ pc = "resolved"
  /\ outcome.fallbacksUsed = 2
  /\ Len(calls) > 3

\* C3: a candidate whose terminal error is classified shouldFallback=false
\* makes the execution fail at once with that same error: the error comes
\* from the last invocation ever made (no retry, no later candidate), and no
\* onFallback event leaves that candidate.
C3_NoFallbackErrorAborts ==
  \A k \in 1..Len(failedModels) :
    LET f == failedModels[k] IN
    ~FallbackEligible(f.error) =>
      /\ k = Len(failedModels)
      /\ pc = "rejected"
      /\ outcome.error = f.error
      /\ f.error.id = Len(calls)
      /\ calls[Len(calls)].modelName = f.modelName
      /\ \A h \in 1..Len(hooks) :
           hooks[h].hook = "onFallback" => hooks[h].from # f.modelName
      /\ \A q \in 1..Len(sleeps) : sleeps[q].after # f.error.id

C3_Witness ==
  /\ pc = "rejected"
  /\ Len(failedModels) = 1
  /\ ~FallbackEligible(failedModels[1].error)
  /\ Len(slice(candidates, fallbackCount)) > 1
  /\ attempt < maxRetries

\* C4: when every candidate of the truncated list ends with a
\* fallback-eligible failure the execution fails with AllModelsFailedError,
\* whose attempts list has one entry per tried candidate, in rank order,
\* each with the candidate's name and the error of its last attempt.
C4_AllFailedCarriesTerminalErrors ==
  LET tried == slice(candidates, fallbackCount) IN
  ( /\ pc \notin {"init", "awaitOp", "sleeping"}
    /\ Len(tried) > 0
    /\ Len(failedModels) = Len(tried)
    /\ \A k \in 1..Len(failedModels) : FallbackEligible(failedModels[k].error) )
  =>
    /\ pc = "rejected"
    /\ outcome.error.name = "AllModelsFailedError"
    /\ Len(outcome.error.attempts) = Len(tried)
    /\ \A k \in 1..Len(tried) :
         /\ outcome.error.attempts[k].modelName = tried[k].modelName
         /\ CallsOf(tried[k].modelName) >= 1
         /\ outcome.error.attempts[k].error.id = LastCallOf(tried[k].modelName)

C4_Witness ==
  /\ pc = "rejected"
  /\ outcome.error.name = "AllModelsFailedError"
  /\ Len(outcome.error.attempts) = 3
  /\ Len(calls) > 3

\* C5: every terminal failure reaches the caller with the full attempt
\* history: the error received gives access to one record for every
\* physical attempt made, retries included.
C5_FailureCarriesFullHistory ==
  pc = "rejected" => Len(HistoryOf(outcome.error)) = Len(calls)

\* Names of the candidates the engine may use: the first
\* min(fallbackCount, number of candidates) of the ranked list.
Allowed ==
  {candidates[k].modelName : k \in 1..Min(fallbackCount, Len(candidates))}

\* Candidate names an error mentions.
NamesIn(error) ==
  {HistoryOf(error)[k].modelName : k \in 1..Len(HistoryOf(error))}

\* C6: for every fallbackCount >= 0 only the first
\* min(fallbackCount, number of candidates) candidates are invoked; a
\* candidate beyond them appears in no invocation, hook event, attempt
\* record or failure list, even when all earlier candidates fail.
C6_OnlyTruncatedListIsUsed ==
  /\ \A k \in 1..Len(calls) : calls[k].modelName \in Allowed
  /\ \A k \in 1..Len(hooks) :
       IF hooks[k].hook = "onFallback"
         THEN hooks[k].from \in Allowed /\ hooks[k].to \in Allowed
         ELSE hooks[k].modelName \in Allowed
  /\ \A k \in 1..Len(attempts) : attempts[k].modelName \in Allowed
  /\ \A k \in 1..Len(allAttempts) : allAttempts[k].modelName \in Allowed
  /\ \A k \in 1..Len(failedModels) : failedModels[k].modelName \in Allowed
  /\ pc = "resolved" => outcome.modelUsed \in Allowed
  /\ pc = "rejected" => NamesIn(outcome.error) \subseteq Allowed

C6_Witness ==
  /\ pc = "rejected"
  /\ outcome.error.name = "AllModelsFailedError"
  /\ fallbackCount = 2
  /\ Len(candidates) = 3
  /\ Len(outcome.error.attempts) = 2

\* C7: when the list is empty after truncation (no candidates, or
\* fallbackCount = 0) the execution fails with the no-candidates error
\* before any attempt: no invocation and no hook event ever happens.
C7_EmptyListFailsFast ==
  (Min(fallbackCount, Len(candidates)) = 0 /\ pc # "init") =>
    /\ pc = "rejected"
    /\ outcome.error = NoModelsError
    /\ calls = <<>>
    /\ hooks = <<>>
    /\ sleeps = <<>>

C7_Witness ==
  /\ pc = "rejected"
  /\ fallbackCount = 0
  /\ Len(candidates) > 0
  /\ outcome.error = NoModelsError

\* C8: each candidate's operation is invoked at most maxRetries+1 times,
\* and exactly maxRetries+1 times when all its attempts fail with a
\* shouldRetry=true error: a candidate is left with a retryable terminal
\* error only after maxRetries+1 invocations, and every earlier failure kept
\* in a running retry loop is retryable.
C8_RetryBudget ==
  /\ \A k \in 1..Len(candidates) :
       CallsOf(candidates[k].modelName) <= maxRetries + 1
  /\ \A k \in 1..Len(failedModels) :
       Retryable(failedModels[k].error) =>
         CallsOf(failedModels[k].modelName) = maxRetries + 1
  /\ pc \in {"awaitOp", "sleeping"} =>
       /\ attempt <= maxRetries
       /\ CallsOf(candidates[i + 1].modelName) = attempt + 1

C8_Witness ==
  /\ maxRetries = 2
  /\ Len(failedModels) = 1
  /\ Retryable(failedModels[1].error)
  /\ classifyError(failedModels[1].error).category = "UNKNOWN"
  /\ CallsOf(failedModels[1].modelName) = 3
  /\ pc = "awaitOp"
  /\ i = 1

\* C9: a failure classified shouldRetry=false, shouldFallback=true ends the
\* candidate's retry loop at once: it is never kept in a running retry
\* loop, no sleep follows it, and the next invocation, which exists when a
\* next-ranked candidate exists, is made for that next candidate.
C9_NonRetryableFallsBackAtOnce ==
  /\ pc \in {"awaitOp", "sleeping"} =>
       \A k \in 1..Len(attempts) : Retryable(attempts[k].error)
  /\ \A k \in 1..Len(failedModels) :
       LET e == failedModels[k].error IN
       (~Retryable(e) /\ FallbackEligible(e)) =>
         /\ \A q \in 1..Len(sleeps) : sleeps[q].after # e.id
         /\ calls[e.id].modelName = failedModels[k].modelName
         /\ IF k < Min(fallbackCount, Len(candidates))
              THEN /\ Len(calls) > e.id
                   /\ calls[e.id + 1].modelName = candidates[k + 1].modelName
              ELSE /\ Len(calls) = e.id
                   /\ pc = "rejected"

C9_Witness ==
  /\ maxRetries = 2
  /\ Len(failedModels) = 1
  /\ classifyError(failedModels[1].error).category = "RATE_LIMIT"
  /\ failedModels[1].error.id = 2
  /\ Len(sleeps) = 1
  /\ Len(calls) = 3
  /\ calls[3].modelName = 2

\* C10: every sleep lasts retryDelay * 2^k, where k is the 0-based number
\* of the failed attempt it follows, k < maxRetries; it lies between two
\* attempts of the same candidate, every retry is preceded by exactly one
\* sleep, and no sleep follows a success, a non-retryable failure or a
\* candidate's last attempt.
C10_BackoffSchedule ==
  /\ \A q \in 1..Len(sleeps) :
       LET a == sleeps[q].after IN
       /\ a \in 1..Len(calls)
       /\ sleeps[q].delay = retryDelay * (2 ^ AttemptIndex(a))
       /\ AttemptIndex(a) < maxRetries
       /\ IF a < Len(calls)
            THEN calls[a + 1].modelName = calls[a].modelName
            ELSE pc = "sleeping"
       /\ \A r \in 1..Len(sleeps) : sleeps[r].after = a => r = q
  /\ \A a \in 1..(Len(calls) - 1) :
       calls[a + 1].modelName = calls[a].modelName <=>
         \E q \in 1..Len(sleeps) : sleeps[q].after = a
  /\ \A k \in 1..Len(failedModels) :
       \A q \in 1..Len(sleeps) : sleeps[q].after # failedModels[k].error.id
  /\ pc = "resolved" =>
       \A q \in 1..Len(sleeps) : sleeps[q].after # outcome.result.call
  /\ pc = "sleeping" =>
       /\ Len(sleeps) > 0
       /\ sleeps[Len(sleeps)].after = Len(calls)
       /\ Retryable(attempts[Len(attempts)].error)

C10_Witness ==
  /\ retryDelay = RetryDelayInput
  /\ Len(sleeps) = 4
  /\ sleeps[2].delay = 2 * RetryDelayInput
  /\ sleeps[4].delay = 2 * RetryDelayInput
  /\ calls[sleeps[3].after].modelName = 2
  /\ pc = "resolved"

\* C11: an attempt that exceeds the timeout ends as a failure with
\* TimeoutError and the engine proceeds with a retry or a fallback: a
\* candidate is left with a TimeoutError only after its maxRetries+1
\* invocations, the next invocation is then made for the next-ranked
\* candidate when there is one, and the execution is never rejected with
\* the TimeoutError itself; operations abandoned by a timeout that settle
\* later change nothing of this.
C11_TimeoutProceeds ==
  /\ \A k \in 1..Len(failedModels) :
       LET e == failedModels[k].error IN
       e.name = "TimeoutError" =>
         /\ CallsOf(failedModels[k].modelName) = maxRetries + 1
         /\ IF k < Min(fallbackCount, Len(candidates))
              THEN /\ Len(calls) > e.id
                   /\ calls[e.id + 1].modelName = candidates[k + 1].modelName
              ELSE /\ pc = "rejected"
                   /\ outcome.error.name = "AllModelsFailedError"
  /\ pc = "rejected" => outcome.error.name # "TimeoutError"

\* C12: candidates are tried strictly in rank order: the first invocation
\* is for the best-ranked candidate, an invocation is for the same
\* candidate as the one before it or for the next-ranked one, candidate k+1
\* is first invoked only right after candidate k's last attempt ended its
\* retry loop in a fallback-eligible failure, and a candidate the engine has
\* moved past is never invoked again.
C12_StrictRankOrder ==
  /\ Len(calls) > 0 => calls[1].modelName = candidates[1].modelName
  /\ \A k \in 1..Len(calls) :
       \E r \in 1..Len(candidates) :
         /\ calls[k].modelName = candidates[r].modelName
         /\ \A j \in 1..(k - 1) :
              \E q \in 1..r : calls[j].modelName = candidates[q].modelName
         /\ (k > 1 /\ calls[k - 1].modelName # calls[k].modelName) =>
              /\ r > 1
              /\ calls[k - 1].modelName = candidates[r - 1].modelName
              /\ Len(failedModels) >= r - 1
              /\ failedModels[r - 1].modelName = candidates[r - 1].modelName
              /\ failedModels[r - 1].error.id = k - 1
              /\ LET c == classifyError(failedModels[r - 1].error) IN
                   /\ c.shouldFallback
                   /\ \/ ~c.shouldRetry
                      \/ CallsOf(candidates[r - 1].modelName) = maxRetries + 1

C12_Witness ==
  /\ Len(calls) = 5
  /\ calls[2].modelName = candidates[1].modelName
  /\ calls[3].modelName = candidates[2].modelName
  /\ calls[5].modelName = candidates[3].modelName
  /\ ~Retryable(failedModels[1].error)
  /\ Retryable(failedModels[2].error)

\* The non-blank tokens of the query after alias expansion.
TokensOf(in) ==
  nonBlank(mapTrim(split(expandAliases(in.query, in.aliases), ",")))

\* C18: parseQuery gives a token with an explicit suffix :<digits> that
\* integer as weight, and every other token at 0-based position p among the
\* N non-blank tokens (counted after alias expansion) the weight N - p,
\* whatever the weights of the other tokens are.
C18_Weights ==
  (output # <<>> /\ output.error = {}) =>
    LET tokens == TokensOf(input)
        conditions == (CHOOSE v \in output.value : TRUE).conditions
    IN
    /\ Len(conditions) = Len(tokens)
    /\ \A k \in 1..Len(tokens) :
         LET t == tokens[k]
             colon == {p \in 1..Len(t) : t[p] = ":"}
             explicit == /\ colon # {}
                         /\ SetMax(colon) \in 2..(Len(t) - 1)
                         /\ \A p \in (SetMax(colon) + 1)..Len(t) : IsDigit(t[p])
         IN
         conditions[k].weight =
           IF explicit
             THEN parseInt(SubSeq(t, SetMax(colon) + 1, Len(t)))
             ELSE Len(tokens) - (k - 1)

C18_Witness ==
  /\ output # <<>>
  /\ output.error = {}
  /\ input.aliases # {}
  /\ LET conditions == (CHOOSE v \in output.value : TRUE).conditions IN
     /\ Len(conditions) = 4
     /\ conditions[1].weight = 4
     /\ conditions[2].weight = 0
     /\ conditions[3].weight = 2
     /\ conditions[4].weight = 1

\* A token is a condition: after its weight suffix and its negation mark
\* are taken off, it is a comparison or a bare identifier.
IsCondition(t) ==
  LET wm == weightMatch(t)
      p1 == IF wm = {} THEN t ELSE trim((CHOOSE m \in wm : TRUE).base)
      p2 == IF startsWith(p1, "!") THEN trim(SubSeq(p1, 2, Len(p1))) ELSE p1
  IN comparisonMatch(p2) # {} \/ isIdentifier(p2)

\* C19: parseQuery fails with the empty-query error exactly when the query
\* yields no non-blank token; it fails with the invalid-condition error,
\* returning nothing, when some token is no condition, even when the other
\* tokens are conditions; otherwise it returns one condition per token.
C19_ParseErrors ==
  output # <<>> =>
    LET tokens == TokensOf(input)
        bad == {k \in 1..Len(tokens) : ~IsCondition(tokens[k])}
    IN
    /\ output.error = {EmptyQueryError} <=> Len(tokens) = 0
    /\ bad # {} =>
         /\ output.error = {InvalidConditionError(tokens[SetMin(bad)])}
         /\ output.value = {}
    /\ (Len(tokens) > 0 /\ bad = {}) =>
         /\ output.error = {}
         /\ Len((CHOOSE v \in output.value : TRUE).conditions) = Len(tokens)
    /\ output.error = {} <=> output.value # {}

C19_Witness ==
  /\ output # <<>>
  /\ output.error # {}
  /\ output.error # {EmptyQueryError}
  /\ output.value = {}
  /\ Len(TokensOf(input)) = 3
  /\ Cardinality({k \in 1..3 : IsCondition(TokensOf(input)[k])}) = 2

\* Texts of the chunks the consumer received from the candidate named m.
ObservedFrom(m) ==
  LET own == SelectSeq(chunks, LAMBDA ch : ch.modelName = m) IN
  [k \in 1..Len(own) |-> own[k].text]

\* C13: in streaming mode the chunks a candidate yielded before it failed
\* stay with the consumer, each candidate's chunks start again from the
\* first one and follow those of the candidates before it, and the deferred
\* result (text, modelUsed) comes only from the one candidate whose stream
\* completed, with fallbacksUsed the number of candidates that failed
\* before it.
C13_StreamRestart ==
  /\ \A k \in 1..Len(calls) :
       /\ calls[k].modelName = candidates[k].modelName
       /\ ObservedFrom(calls[k].modelName) = [n \in 1..calls[k].emitted |-> n]
  /\ \A k \in 1..(Len(chunks) - 1) :
       chunks[k].modelName <= chunks[k + 1].modelName
  /\ (outcome # <<>> /\ outcome.status = "resolved") =>
       /\ pc = "returned"
       /\ outcome.fallbacksUsed = Len(failedModels)
       /\ outcome.fallbacksUsed = Len(calls) - 1
       /\ outcome.modelUsed = candidates[outcome.fallbacksUsed + 1].modelName
       /\ outcome.modelUsed = calls[Len(calls)].modelName
       /\ outcome.text = ObservedFrom(outcome.modelUsed)
       /\ \A k \in 1..Len(failedModels) :
            /\ failedModels[k].modelName = candidates[k].modelName
            /\ failedModels[k].modelName # outcome.modelUsed

C13_Witness ==
  /\ pc = "returned"
  /\ outcome.status = "resolved"
  /\ outcome.fallbacksUsed = 1
  /\ Len(chunks) = 3
  /\ chunks[2].modelName = candidates[1].modelName
  /\ outcome.text = <<1>>

\* C14: once the chunk sequence of a streaming execution has ended, the
\* deferred result is settled: resolved if and only if a candidate's
\* stream completed, rejected otherwise; and it is never resolved while no
\* stream has completed.
C14_SettledExactlyOnce ==
  /\ pc \in {"returned", "threw"} =>
       /\ outcome # <<>>
       /\ outcome.status = "resolved" <=> pc = "returned"
       /\ outcome.status = "rejected" <=> pc = "threw"
  /\ outcome # <<>> => pc \in {"returned", "threw"}

\* C15: whenever the chunk sequence ends with an error (a query parse
\* error, no enabled model, an empty candidate list, an error that forbids
\* the fallback, or all candidates failed) the deferred result is rejected
\* with that same error.
C15_StreamErrorRejectsResult ==
  streamError # {} =>
    outcome = [status |-> "rejected", error |-> CHOOSE e \in streamError : TRUE]

\* The pattern sets in the order classifyError is said to try them.
Precedence ==
  << [category |-> "RATE_LIMIT", patterns |-> RATE_LIMIT_PATTERNS],
     [category |-> "AUTH", patterns |-> AUTH_PATTERNS],
     [category |-> "INVALID_REQUEST", patterns |-> INVALID_REQUEST_PATTERNS],
     [category |-> "TRANSIENT", patterns |-> TRANSIENT_PATTERNS] >>

\* The pattern sets the text of error matches, by their place in Precedence.
MatchedSets(error) ==
  {k \in 1..Len(Precedence) :
     matchesPatterns(getErrorText(error), Precedence[k].patterns)}

\* C16: classifyError gives each category fixed flags: RATE_LIMIT and AUTH
\* no retry but fallback, INVALID_REQUEST neither, TRANSIENT and UNKNOWN
\* both; an error that matches no pattern is UNKNOWN; so shouldRetry always
\* implies shouldFallback.
C16_CategoryFlags ==
  output # <<>> =>
    /\ output.category \in
         {"RATE_LIMIT", "AUTH", "INVALID_REQUEST", "TRANSIENT", "UNKNOWN"}
    /\ output.shouldRetry <=> output.category \in {"TRANSIENT", "UNKNOWN"}
    /\ output.shouldFallback <=> output.category # "INVALID_REQUEST"
    /\ MatchedSets(input) = {} => output.category = "UNKNOWN"
    /\ output.shouldRetry => output.shouldFallback

C16_Witness ==
  /\ output # <<>>
  /\ output.category = "AUTH"
  /\ ~output.shouldRetry
  /\ output.shouldFallback
  /\ input.message = <<"api", "error">>
  /\ "statusCode" \in DOMAIN input

\* C17: classifyError's category is that of the first pattern set, in the
\* order RATE_LIMIT, AUTH, INVALID_REQUEST, TRANSIENT, that the error text
\* matches, and UNKNOWN when none does; the text takes in the message, a
\* numeric status and statusCode, a string code and the message of an
\* object cause, and nothing of a property of another type.
C17_Precedence ==
  output # <<>> =>
    LET matched == MatchedSets(input)
        has(prop, type) == prop \in DOMAIN input /\ input[prop].type = type
    IN
    /\ output.category =
         IF matched = {} THEN "UNKNOWN"
         ELSE Precedence[SetMin(matched)].category
    /\ (has("status", "number") /\ input.status.nums = {429}) =>
         output.category = "RATE_LIMIT"
    /\ (has("cause", "object")
          /\ input.cause.message.words = <<"quota", "exceeded">>) =>
         output.category = "RATE_LIMIT"
    /\ (has("statusCode", "number") /\ input.statusCode.nums = {500}) =>
         output.category # "UNKNOWN"
    /\ (has("code", "string") /\ input.code.words = <<"econnreset">>) =>
         output.category # "UNKNOWN"
    /\ ( /\ input.message = <<"api", "error">>
         /\ ~has("status", "number")
         /\ ~has("statusCode", "number") \/ input.statusCode.nums = {200}
         /\ ~has("code", "string")
         /\ ~has("cause", "object") ) =>
         output.category = "UNKNOWN"

C17_Witness ==
  /\ output # <<>>
  /\ output.category = "AUTH"
  /\ MatchedSets(input) = {2, 3, 4}
  /\ input.message = <<"bad", "request", "timed", "out">>
  /\ "status" \in DOMAIN input
  /\ "code" \in DOMAIN input

RECURSIVE SumOfWeights(_, _)
SumOfWeights(conditions, S) ==
  IF S = {} THEN 0
  ELSE LET k == CHOOSE x \in S : TRUE IN
       conditions[k].weight + SumOfWeights(conditions, S \ {k})

\* Number of places of the sequence list that hold x.
Occurrences(list, x) == Cardinality({k \in 1..Len(list) : list[k] = x})

\* C20: matchModel's score is the sum of the weights of the satisfied
\* conditions and maxScore the sum of the weights of all conditions, so
\* 0 <= score <= maxScore; each condition puts its attribute in exactly one
\* list, matchedAttributes when it is satisfied and missingAttributes when
\* it is not, so the lengths of the two lists add up to the number of
\* conditions.
C20_ScoreAndLists ==
  output # <<>> =>
    LET conditions ==
          (CHOOSE v \in parseQuery(input.query, {}).value : TRUE).conditions
        all == 1..Len(conditions)
        satisfied == {k \in all :
                        evaluateCondition(conditions[k], input.attributes)}
        attributeOf(k) == conditions[k].attribute
    IN
    /\ output.score = SumOfWeights(conditions, satisfied)
    /\ output.maxScore = SumOfWeights(conditions, all)
    /\ 0 <= output.score
    /\ output.score <= output.maxScore
    /\ Len(output.matchedAttributes) = Cardinality(satisfied)
    /\ Len(output.missingAttributes) = Cardinality(all \ satisfied)
    /\ Len(output.matchedAttributes) + Len(output.missingAttributes)
         = Len(conditions)
    /\ \A k \in all :
         /\ Occurrences(output.matchedAttributes, attributeOf(k))
              = Cardinality({j \in satisfied : attributeOf(j) = attributeOf(k)})
         /\ Occurrences(output.missingAttributes, attributeOf(k))
              = Cardinality({j \in all \ satisfied :
                               attributeOf(j) = attributeOf(k)})

C20_Witness ==
  /\ output # <<>>
  /\ output.score = 3
  /\ output.maxScore = 4
  /\ output.matchedAttributes = <<<<"b">>>>
  /\ output.missingAttributes = <<<<"b">>, <<"c">>>>

\* The conditions of the query a matchModel input was parsed into.
ConditionsOf(in) ==
  (CHOOSE v \in parseQuery(in.query, {}).value : TRUE).conditions

\* The attribute names that have an entry in the attribute map.
NamesOf(attributes) == {e.name : e \in attributes}

\* C21: a condition on an attribute absent from the candidate's attribute
\* map is satisfied if and only if it is negated, whatever its operator
\* and target value: matchModel puts such an attribute in matchedAttributes
\* once per negated condition on it and in missingAttributes once per
\* condition on it that is not negated.
C21_AbsentAttribute ==
  output # <<>> =>
    LET conditions == ConditionsOf(input)
        on(x, negated) ==
          Cardinality({k \in 1..Len(conditions) :
                         /\ conditions[k].attribute = x
                         /\ conditions[k].negated = negated})
    IN
    \A k \in 1..Len(conditions) :
      LET x == conditions[k].attribute IN
      x \notin NamesOf(input.attributes) =>
        /\ Occurrences(output.matchedAttributes, x) = on(x, TRUE)
        /\ Occurrences(output.missingAttributes, x) = on(x, FALSE)

\* C22: matchModel's matches flag is true if and only if at least one
\* condition of the query is satisfied (matchedAttributes has an entry),
\* and whenever exactMatch is true matches is true too, for every query the
\* parser produces, explicit weights 0 included.
C22_MatchesIsLooser ==
  output # <<>> =>
    /\ output.matches <=> Len(output.matchedAttributes) > 0
    /\ output.exactMatch => output.matches

\* The ranking selectModelsDetailed returned.
Ranking == CHOOSE v \in output.value : TRUE

\* The places of the configuration's enumeration that hold enabled models.
EnabledPlaces == {k \in 1..Len(input.models) : input.models[k].enabled}

\* Score and maximal score of the model at place k of the enumeration.
MatchOf(k) ==
  matchModel(input.models[k].attributes,
             CHOOSE v \in parseQuery(input.query, {}).value : TRUE)

\* The model at place j has a higher normalized score (score / maxScore,
\* 0 when maxScore is 0) than the one at place k, or the same.
Higher(j, k) ==
  LET a == MatchOf(j)  b == MatchOf(k)
      an == IF a.maxScore = 0 THEN 0 ELSE a.score
      ad == IF a.maxScore = 0 THEN 1 ELSE a.maxScore
      bn == IF b.maxScore = 0 THEN 0 ELSE b.score
      bd == IF b.maxScore = 0 THEN 1 ELSE b.maxScore
  IN an * bd > bn * ad

SameScore(j, k) == ~Higher(j, k) /\ ~Higher(k, j)

\* The model at place j is ranked ahead of the one at place k.
Ahead(j, k) == Higher(j, k) \/ (SameScore(j, k) /\ j < k)

\* C23: the ranking is the enabled candidates sorted by normalized score,
\* highest first, cut to count (all of them by default): an earlier entry
\* never has a lower score than a later one, entries with the same score
\* are in the order of the configuration's enumeration, and an enabled
\* candidate left out by the cut is ranked behind every entry.
C23_StableDescendingRanking ==
  (output # <<>> /\ output.value # {}) =>
    /\ \A j \in 1..Len(Ranking) : \A k \in (j + 1)..Len(Ranking) :
         /\ ~Higher(Ranking[k].name, Ranking[j].name)
         /\ SameScore(Ranking[j].name, Ranking[k].name) =>
              Ranking[j].name < Ranking[k].name
    /\ \A k \in 1..Len(Ranking) :
         /\ Ranking[k].name \in EnabledPlaces
         /\ \A m \in EnabledPlaces :
              (\A j \in 1..Len(Ranking) : Ranking[j].name # m) =>
                Ahead(Ranking[k].name, m)

C23_Witness ==
  /\ output # <<>>
  /\ output.value # {}
  /\ input.count = {2}
  /\ Cardinality(EnabledPlaces) = 3
  /\ Len(Ranking) = 2
  /\ Ranking[1].name = 2
  /\ Ranking[2].name = 1
  /\ SameScore(1, 3)

\* The count asked for, all enabled candidates by default.
CountOf(in) == OrDefault(in.count, Cardinality(EnabledPlaces))

\* C24: for a query that parses, the ranking holds enabled candidates
\* only and each at most once, candidates with score 0 are kept, so its
\* length is min(count, number of enabled candidates), and ranking fails
\* with the no-candidates error exactly when no candidate is enabled.
C24_OnlyEnabledCandidates ==
  (output # <<>> /\ parseQuery(input.query, {}).error = {}) =>
    IF EnabledPlaces = {}
      THEN output.error = {NoEnabledModelsError}
      ELSE /\ output.error = {}
           /\ \A k \in 1..Len(Ranking) : Ranking[k].name \in EnabledPlaces
           /\ \A j, k \in 1..Len(Ranking) :
                Ranking[j].name = Ranking[k].name => j = k
           /\ Len(Ranking) = Min(CountOf(input), Cardinality(EnabledPlaces))

C24_Witness ==
  /\ output # <<>>
  /\ output.error = {}
  /\ Len(input.models) = 3
  /\ EnabledPlaces = {1, 3}
  /\ input.count = {}
  /\ Len(Ranking) = 2
  /\ Ranking[2].matchResult.score = 0

\* C25: in streaming mode a candidate that fails before it has yielded a
\* chunk, with an error classified shouldRetry=true, is retried on the
\* same candidate up to maxRetries times before the engine leaves it: when
\* such a failure is the candidate's terminal one, streamText has been
\* called maxRetries + 1 times for that candidate.
C25_StreamRetriesBeforeFirstChunk ==
  pc \in {"streaming", "returned", "threw"} =>
    \A k \in 1..Len(failedModels) :
      LET e == failedModels[k].error IN
      (calls[e.id].emitted = 0 /\ classifyError(e).shouldRetry) =>
        CallsOf(failedModels[k].modelName) = maxRetries + 1

\* C26: in streaming mode a candidate that fails after it has yielded at
\* least one chunk is not retried: its stream is never started a second
\* time, and the engine goes straight to the next candidate when there is
\* one and the error allows the fallback, and ends the sequence with an
\* error otherwise.
C26_NoMidStreamRetry ==
  \A k \in 1..Len(failedModels) :
    LET e == failedModels[k].error IN
    calls[e.id].emitted > 0 =>
      /\ CallsOf(failedModels[k].modelName) = 1
      /\ IF classifyError(e).shouldFallback /\ k < Len(candidates)
           THEN /\ Len(calls) > e.id
                /\ calls[e.id + 1].modelName = candidates[k + 1].modelName
           ELSE /\ Len(calls) = e.id
                /\ pc = "threw"

C26_Witness ==
  /\ Len(failedModels) = 2
  /\ calls[1].emitted = 2
  /\ calls[2].emitted = 1
  /\ Len(calls) = 3
  /\ calls[3].modelName = candidates[3].modelName

\* C27: when the consumer closes the chunk sequence before a candidate's
\* stream has completed, the deferred final result is settled: it is
\* rejected (with a cancellation error), not left pending.
C27_CloseSettlesResult ==
  (pc = "closed" /\ chunks # <<>>) =>
    (outcome # <<>> /\ outcome.status = "rejected")

\* Number of chunks the calls 1..c of streamText have delivered together.
RECURSIVE EmittedUpTo(_)
EmittedUpTo(c) == IF c = 0 THEN 0 ELSE calls[c].emitted + EmittedUpTo(c - 1)

\* The call of streamText that delivered the k-th chunk of the sequence.
ProducerOf(k) == SetMin({c \in 1..Len(calls) : EmittedUpTo(c) >= k})

\* Rank of the candidate named m.
RankOf(m) == CHOOSE r \in 1..Len(candidates) : candidates[r].modelName = m

\* C28: every chunk of the streaming sequence is tagged with the name of
\* the candidate whose stream produced it, and the chunks appear in rank
\* order of their producers: no chunk is tagged with a candidate ranked
\* ahead of the producer of an earlier chunk.
C28_ChunksTaggedInRankOrder ==
  /\ Len(chunks) = EmittedUpTo(Len(calls))
  /\ \A k \in 1..Len(chunks) :
       /\ chunks[k].modelName = calls[ProducerOf(k)].modelName
       /\ \E r \in 1..Len(candidates) :
            candidates[r].modelName = chunks[k].modelName
       /\ \A j \in 1..(k - 1) :
            RankOf(chunks[j].modelName) <= RankOf(chunks[k].modelName)

C28_Witness ==
  /\ Len(candidates) = 3
  /\ Len(chunks) = 3
  /\ chunks[1].modelName = candidates[1].modelName
  /\ chunks[2].modelName = candidates[2].modelName
  /\ chunks[3].modelName = candidates[3].modelName

\* The places of the hook sequence that hold an event of the kind named.
HookPlaces(kind) == {h \in 1..Len(hooks) : hooks[h].hook = kind}

\* C29: the hook events of a single-shot execution are ordered: there is
\* one onAttempt per invocation of fn, in invocation order; an onAttempt is
\* followed by an onAttempt for the same candidate, by an onFallback or by
\* onSuccess; each onFallback stands between the last onAttempt of its
\* from candidate and the first onAttempt of its to candidate, which is
\* the next-ranked one, and carries the terminal error of from; onSuccess
\* is emitted once, last, exactly when the execution succeeds, and then the
\* number of onFallback events is fallbacksUsed.
C29_HookOrder ==
  LET onAttempt == HookPlaces("onAttempt")
      onFallback == HookPlaces("onFallback")
      onSuccess == HookPlaces("onSuccess")
      earlier(h) == Cardinality({g \in onAttempt : g <= h})
  IN
  /\ Cardinality(onAttempt) = Len(calls)
  /\ \A h \in onAttempt :
       /\ hooks[h].modelName = calls[earlier(h)].modelName
       /\ h < Len(hooks) =>
            \/ h + 1 \in onAttempt /\ hooks[h + 1].modelName = hooks[h].modelName
            \/ h + 1 \in onFallback
            \/ h + 1 \in onSuccess
  /\ \A h \in onFallback :
       /\ h - 1 \in onAttempt
       /\ h + 1 \in onAttempt
       /\ hooks[h - 1].modelName = hooks[h].from
       /\ hooks[h + 1].modelName = hooks[h].to
       /\ \A g \in onAttempt :
            /\ hooks[g].modelName = hooks[h].from => g < h
            /\ hooks[g].modelName = hooks[h].to => g > h
       /\ \E r \in 1..(Len(candidates) - 1) :
            /\ candidates[r].modelName = hooks[h].from
            /\ candidates[r + 1].modelName = hooks[h].to
            /\ failedModels[r].modelName = hooks[h].from
            /\ failedModels[r].error = hooks[h].error
            /\ hooks[h].error.id = earlier(h)
  /\ onSuccess # {} <=> pc = "resolved"
  /\ onSuccess \subseteq {Len(hooks)}
  /\ pc = "resolved" => Cardinality(onFallback) = outcome.fallbacksUsed

C29_Witness ==
  /\ pc = "resolved"
  /\ outcome.fallbacksUsed = 2
  /\ Len(hooks) = 7
  /\ hooks[2].hook = "onAttempt"
  /\ hooks[3].hook = "onFallback"
  /\ hooks[5].hook = "onFallback"

\* C30: the attemptNumber passed to onAttempt is the 1-based number of
\* the attempt on the current candidate, in single-shot and in streaming
\* execution: it is one more than the number of onAttempt events emitted
\* before for the same candidate, so 1 for the first attempt on each
\* candidate, and it never exceeds maxRetries + 1.
C30_AttemptNumber ==
  \A h \in HookPlaces("onAttempt") :
    /\ hooks[h].attemptNumber =
         1 + Cardinality({g \in HookPlaces("onAttempt") :
                            g < h /\ hooks[g].modelName = hooks[h].modelName})
    /\ hooks[h].attemptNumber <= maxRetries + 1

\* The alias names of an Aliases object.
AliasNames(aliases) == {e.name : e \in aliases}

\* The trimmed tokens of the query as written, before any expansion.
WrittenTokens(in) == mapTrim(split(in.query, ","))

\* What is left of the token t when its weight suffix and its negation
\* mark are taken off.
BaseName(t) ==
  LET wm == weightMatch(t)
      base == IF wm = {} THEN t ELSE trim((CHOOSE m \in wm : TRUE).base)
  IN IF startsWith(base, "!") THEN SubSeq(base, 2, Len(base)) ELSE base

\* The query text with every token that is an alias name replaced by the
\* alias's replacement fragment, once.
ReplacedOnce(in) ==
  LET ts == WrittenTokens(in) IN
  join([k \in 1..Len(ts) |->
          IF ts[k] \in AliasNames(in.aliases)
            THEN CHOOSE v \in aliasLookup(in.aliases, ts[k]) : TRUE
            ELSE ts[k]],
       <<",", " ">>)

\* C31: aliases are expanded exactly once.  For a query whose tokens are
\* alias names or name no alias, parseQuery gives what parsing without any
\* alias gives for the text in which each alias token is replaced by its
\* fragment once: a name inside a fragment that is itself an alias is
\* parsed as an ordinary condition, also when aliases refer to themselves
\* or to each other.
C31_ExpandedOnce ==
  (/\ output # <<>>
   /\ \A k \in 1..Len(WrittenTokens(input)) :
        LET t == WrittenTokens(input)[k] IN
        t \in AliasNames(input.aliases)
          \/ BaseName(t) \notin AliasNames(input.aliases))
  => output = parseQuery(ReplacedOnce(input), {})

C31_Witness ==
  /\ output # <<>>
  /\ input.query = <<"a", ",", "f">>
  /\ aliasLookup(input.aliases, <<"f">>) = {<<"f", ",", "a">>}
  /\ output.error = {}
  /\ Len((CHOOSE v \in output.value : TRUE).conditions) = 3
  /\ (CHOOSE v \in output.value : TRUE).conditions[2].attribute = <<"f">>

\* The conditions parseQuery returned.
ParsedConditions == (CHOOSE v \in output.value : TRUE).conditions

\* C32: when a token name:W names an alias, every condition parseQuery
\* produces from the alias's replacement fragment has weight W.  (The
\* other tokens of the query name no alias and give one condition each, so
\* the fragment's conditions are the ones from the token's place on.)
C32_WeightOnAliasExpansion ==
  (output # <<>> /\ output.error = {}) =>
    LET ts == WrittenTokens(input)
        names == AliasNames(input.aliases)
    IN
    \A k \in 1..Len(ts) :
      LET wm == weightMatch(ts[k]) IN
      (/\ wm # {}
       /\ trim((CHOOSE m \in wm : TRUE).base) \in names
       /\ \A j \in (1..Len(ts)) \ {k} :
            Len(ts[j]) > 0 /\ BaseName(ts[j]) \notin names)
      => \A c \in k..(k + Len(ParsedConditions) - Len(ts)) :
           ParsedConditions[c].weight = parseInt((CHOOSE m \in wm : TRUE).digits)

\* The token t is a negated alias: !name, with or without a weight suffix,
\* where name is an alias.
IsNegatedAlias(t, aliases) ==
  LET wm == weightMatch(t)
      base == IF wm = {} THEN t ELSE trim((CHOOSE m \in wm : TRUE).base)
  IN /\ startsWith(base, "!")
     /\ SubSeq(base, 2, Len(base)) \in AliasNames(aliases)

IsMixedOrdering(condition, attributes) ==
  /\ condition.operator \in {<<">">>, <<">", "=">>, <<"<">>, <<"<", "=">>}
  /\ \E e \in attributes :
       /\ e.name = condition.attribute
       /\ e.value.type # "number" \/ condition.value.type # "number"

\* C33: an ordering condition (>, >=, <, <=) whose stored value or target
\* value is not a number has raw outcome false and raises no error, and
\* negation is the final flip: matchModel returns a result in which such a
\* condition is satisfied exactly when it is negated.  (Counted per
\* attribute whose conditions in the query are all of this kind.)
C33_OrderingNeedsNumbers ==
  output # <<>> =>
    LET conditions == ConditionsOf(input)
        onAttr(x) == {k \in 1..Len(conditions) : conditions[k].attribute = x}
    IN
    \A k \in 1..Len(conditions) :
      LET x == conditions[k].attribute IN
      (\A j \in onAttr(x) : IsMixedOrdering(conditions[j], input.attributes))
      => /\ Occurrences(output.matchedAttributes, x)
              = Cardinality({j \in onAttr(x) : conditions[j].negated})
         /\ Occurrences(output.missingAttributes, x)
              = Cardinality({j \in onAttr(x) : ~conditions[j].negated})

C33_Witness ==
  /\ output # <<>>
  /\ input.query = <<"a", ",", "!", "b", ">", "1">>
  /\ attributeLookup(input.attributes, <<"b">>) = {StringValue(<<"x">>)}
  /\ output.matchedAttributes = <<<<"b">>>>
  /\ output.missingAttributes = <<<<"a">>>>

\* C38: for every entry of a ranking, exactMatch is true if and only if
\* the normalized score is 1, the normalized score lies in [0, 1], and so
\* no entry that is an exact match stands behind one that is not.
C38_ExactMatchIsScoreOne ==
  (output # <<>> /\ output.value # {}) =>
    /\ \A k \in 1..Len(Ranking) :
         LET n == Ranking[k].normalizedScore IN
         /\ Ranking[k].matchResult.exactMatch <=> n.num = n.den
         /\ 0 <= n.num
         /\ n.num <= n.den
    /\ \A j \in 1..Len(Ranking) : \A k \in (j + 1)..Len(Ranking) :
         Ranking[k].matchResult.exactMatch => Ranking[j].matchResult.exactMatch

\* C34: a TimeoutError raised by withTimeout is classified TRANSIENT, with
\* shouldRetry and shouldFallback true, for every configured timeout
\* value: every TimeoutError recorded for an attempt or as a candidate's
\* terminal error is classified so, and no execution is rejected with a
\* TimeoutError.
C34_TimeoutIsTransient ==
  LET transient(e) ==
        e.name = "TimeoutError" =>
          classifyError(e) = [category |-> "TRANSIENT",
                              shouldRetry |-> TRUE, shouldFallback |-> TRUE]
  IN
  /\ \A k \in 1..Len(attempts) : transient(attempts[k].error)
  /\ \A k \in 1..Len(failedModels) : transient(failedModels[k].error)
  /\ pc = "rejected" => outcome.error.name # "TimeoutError"

\* C35: no two invocations of the operation started by one execution are
\* in progress at the same time: while an attempt's invocation is awaited,
\* no invocation of an earlier attempt is still running.
C35_OneInvocationAtATime ==
  pc = "awaitOp" => abandoned = 0

\* C36: every execution terminates, with a result or an error, after at
\* most min(fallbackCount, number of candidates) * (maxRetries + 1)
\* invocations of the operation, even if the operations never complete.
C36_TerminatesWithinBudget ==
  /\ [](Len(calls) <= Min(fallbackCount, Len(candidates)) * (maxRetries + 1))
  /\ <>(pc \in {"resolved", "rejected"})

\* An execution whose every invocation timed out has ended having used the
\* whole budget of two candidates with one retry each.
C36_Witness ==
  /\ pc = "rejected"
  /\ Len(candidates) >= 2 /\ fallbackCount = 2 /\ maxRetries = 1
  /\ Len(calls) = 4
  /\ Len(failedModels) = 2
  /\ \A k \in 1..2 : failedModels[k].error.name = "TimeoutError"

\* ============================================ config writer (writer.ts)
\* disk.file is the config the file at configPath holds ({} while there is
\* no file); the file is written by writeConfigToFile alone, with
\* stringifyToml of a validated config, and read back by parseToml.
\* disk.temp maps a process id to the config its temporary file
\* `${configPath}.tmp.${process.pid}` holds.

\* Number of mutations called before any of them has returned.
MaxMutations == 2

\* { aliases: {}, models: {} }
emptyConfig == [aliases |-> NoEntries, models |-> NoEntries]

\* { ...obj, [name]: value }
setEntry(obj, name, value) ==
  [n \in DOMAIN obj \cup {name} |-> IF n = name THEN value ELSE obj[n]]

\* addModel(name, config, {configPath}) and setAlias(name, query,
\* {configPath}), with valid arguments and one configPath, called in the
\* process pid.
MutationCalls ==
  {[op |-> "addModel", name |-> n, value |-> "config", pid |-> p] :
     n \in {"m1", "m2"}, p \in 1..2}
  \cup {[op |-> "setAlias", name |-> "f", value |-> "a", pid |-> p] :
          p \in 1..2}

WriterInputs ==
  UNION {[1..n -> MutationCalls] : n \in 1..MaxMutations}

\* The config file before the calls: none, or one that holds model m1.
ExistingFiles ==
  { {},
    {[aliases |-> NoEntries, models |-> setEntry(NoEntries, "m1", "config")]} }

InitConfig ==
  /\ EngineIdle
  /\ output = <<>>
  /\ input \in WriterInputs
  /\ disk \in {[file |-> f, temp |-> NoEntries] : f \in ExistingFiles}
  /\ writers = [w \in 1..Len(input) |->
                  [at |-> "called", config |-> emptyConfig, result |-> {}]]

\* loadExistingConfig: the file's config, or the empty config on ENOENT.
loadExistingConfig(d) ==
  IF d.file = {} THEN emptyConfig ELSE CHOOSE c \in d.file : TRUE

\* if (existing.models[name]) in addModel.
isDuplicate(call, existing) ==
  call.op = "addModel" /\ call.name \in DOMAIN existing.models

\* The config handed to writeConfig: addModel's
\* { ...existing, models: { ...existing.models, [name]: config } } and
\* setAlias's updater.
updated(call, existing) ==
  IF call.op = "addModel"
    THEN [existing EXCEPT
            !.models = setEntry(existing.models, call.name, call.value)]
    ELSE [existing EXCEPT
            !.aliases = setEntry(existing.aliases, call.name, call.value)]

WriteSucceeded == [success |-> TRUE]
WriteFailed(code) == [success |-> FALSE, code |-> code]

\* Call w up to its await of loadExistingConfig and on to writeConfig:
\* the file is read, the duplicate check made and the new config built.
LoadExisting ==
  \E w \in 1..Len(writers) :
    /\ writers[w].at = "called"
    /\ LET existing == loadExistingConfig(disk)
       IN writers' =
            [writers EXCEPT ![w] =
               IF isDuplicate(input[w], existing)
                 THEN [at |-> "done", config |-> existing,
                       result |-> {WriteFailed("DUPLICATE_MODEL")}]
                 ELSE [at |-> "loaded", config |-> updated(input[w], existing),
                       result |-> {}]]
    /\ UNCHANGED <<engineVars, input, output, chunks, streamError, disk>>

\* writeConfigToFile: await fs.writeFile(tempPath, tomlContent).
WriteTemp ==
  \E w \in 1..Len(writers) :
    /\ writers[w].at = "loaded"
    /\ disk' = [disk EXCEPT
                  !.temp = setEntry(disk.temp, input[w].pid, writers[w].config)]
    /\ writers' = [writers EXCEPT ![w].at = "written"]
    /\ UNCHANGED <<engineVars, input, output, chunks, streamError>>

\* writeConfigToFile: await fs.rename(tempPath, configPath) and the return,
\* or the catch block when the temporary file is no longer there.
Rename ==
  \E w \in 1..Len(writers) :
    /\ writers[w].at = "written"
    /\ LET pid == input[w].pid
       IN IF pid \in DOMAIN disk.temp
            THEN /\ disk' = [file |-> {disk.temp[pid]},
                             temp |-> [q \in DOMAIN disk.temp \ {pid} |->
                                         disk.temp[q]]]
                 /\ writers' = [writers EXCEPT ![w].at = "done",
                                               ![w].result = {WriteSucceeded}]
            ELSE /\ writers' =
                      [writers EXCEPT
                         ![w].at = "done",
                         ![w].result = {WriteFailed("DIRECTORY_NOT_FOUND")}]
                 /\ UNCHANGED disk
    /\ UNCHANGED <<engineVars, input, output, chunks, streamError>>

NextConfig ==
  \/ LoadExisting
  \/ WriteTemp
  \/ Rename

SpecConfig == InitConfig /\ [][NextConfig]_vars

\* The config file holds what the call set out to write.
HoldsEffect(call) ==
  /\ disk.file # {}
  /\ LET config == loadExistingConfig(disk)
         entries == IF call.op = "addModel" THEN config.models
                                           ELSE config.aliases
     IN call.name \in DOMAIN entries /\ entries[call.name] = call.value

\* C39: config mutations are atomic read-modify-write operations: when the
\* mutations called concurrently on one config path have all returned
\* success, the config file holds the effect of each of them.
C39_NoLostMutation ==
  (\A w \in 1..Len(writers) : writers[w].result = {WriteSucceeded})
    => \A w \in 1..Len(writers) : HoldsEffect(input[w])

====
